---- MODULE Spec2Model ----
(***************************************************************************)
(* Model of the profiling pipeline of scraperIntelligent:                  *)
(*   src/src/services/profile_orchestrator.py  ProfileOrchestrator         *)
(*   src/src/services/scoring.py               ReliabilityScorer           *)
(*   src/src/services/llm_analyzer.py          LLMAnalyzer                 *)
(*   src/src/services/sources/*.py             the four collectors         *)
(*   src/src/models/profile.py                 the pydantic models         *)
(*                                                                         *)
(* One request is followed from the construction of BaseProfile to the     *)
(* record create_profile returns.  What the outside world answers (the     *)
(* pages the collectors fetch, the texts the LLM returns) is chosen        *)
(* nondeterministically from small sets of samples.                        *)
(***************************************************************************)
EXTENDS Integers, Sequences, FiniteSets, TLC

(***************************************************************************)
(* Python values.  Every value carries its type tag, so that truthiness,   *)
(* `a or b`, dict.get and the AttributeError / TypeError / ValidationError *)
(* of a wrongly shaped value can be computed as Python computes them.      *)
(* A str is the sequence of its characters.                                *)
(***************************************************************************)
None == [t |-> "None"]
Str(s) == [t |-> "str", v |-> s]
PyInt(n) == [t |-> "int", v |-> n]
Bool(b) == [t |-> "bool", v |-> b]
List(xs) == [t |-> "list", v |-> xs]
Dict(f) == [t |-> "dict", v |-> f]
Obj(cls, f) == [t |-> cls, v |-> f]

EmptyStr == Str(<<>>)
EmptyList == List(<<>>)
EmptyDict == Dict(<<>>)

\* A text whose characters nothing in the program inspects (a URL, a title):
\* one opaque symbol, non-empty.
Tok(s) == Str(<<s>>)

IsStr(x) == x.t = "str"
IsList(x) == x.t = "list"
IsDict(x) == x.t = "dict"
IsOptStr(x) == x.t \in {"str", "None"}
IsListOfStr(x) == IsList(x) /\ \A i \in 1..Len(x.v) : IsStr(x.v[i])

\* bool(x)
Truthy(x) ==
    CASE x.t = "None" -> FALSE
      [] x.t = "str" -> Len(x.v) > 0
      [] x.t = "list" -> Len(x.v) > 0
      [] x.t = "dict" -> DOMAIN x.v # {}
      [] x.t = "int" -> x.v # 0
      [] x.t = "bool" -> x.v
      [] OTHER -> TRUE

\* a or b
Or(a, b) == IF Truthy(a) THEN a ELSE b

\* len(x) of a sized value
PyLen(x) == IF IsDict(x) THEN Cardinality(DOMAIN x.v) ELSE Len(x.v)
HasLen(x) == x.t \in {"str", "list", "dict"}

\* d.get(k, dflt) and d.get(k) of a dict d
Get(d, k, dflt) == IF k \in DOMAIN d.v THEN d.v[k] ELSE dflt
GetN(d, k) == Get(d, k, None)

Min(a, b) == IF a < b THEN a ELSE b
Max(a, b) == IF a > b THEN a ELSE b

\* xs[:n]
Take(xs, n) == SubSeq(xs, 1, Min(n, Len(xs)))

(***************************************************************************)
(* str methods used by the merger.                                         *)
(***************************************************************************)
UpperCase == <<"A", "B", "C", "D", "E", "F", "G", "H", "I", "J", "K", "L", "M",
               "N", "O", "P", "Q", "R", "S", "T", "U", "V", "W", "X", "Y", "Z">>
LowerCase == <<"a", "b", "c", "d", "e", "f", "g", "h", "i", "j", "k", "l", "m",
               "n", "o", "p", "q", "r", "s", "t", "u", "v", "w", "x", "y", "z">>
ToLower ==
    [c \in {UpperCase[i] : i \in 1..26} |->
        LowerCase[CHOOSE i \in 1..26 : UpperCase[i] = c]]
LowerChar(c) == IF c \in DOMAIN ToLower THEN ToLower[c] ELSE c
\* s.lower()
Lower(s) == SubSeq([i \in 1..Len(s) |-> LowerChar(s[i])], 1, Len(s))

\* needle in hay
Contains(hay, needle) ==
    LET h == hay
        n == needle
    IN \E i \in 0..(Len(h) - Len(n)) : \A j \in 1..Len(n) : h[i + j] = n[j]

WhiteSpace == {" ", "\n", "\t"}
RECURSIVE LStrip(_)
LStrip(s) ==
    IF s # <<>> /\ Head(s) \in WhiteSpace THEN LStrip(Tail(s)) ELSE s
RECURSIVE RStrip(_)
RStrip(s) ==
    IF s # <<>> /\ s[Len(s)] \in WhiteSpace
    THEN RStrip(SubSeq(s, 1, Len(s) - 1)) ELSE s
\* s.strip()
Strip(s) == RStrip(LStrip(s))

\* the first index at or after i where a blank line starts in s, 0 if none
FindBlank(s, i) ==
    LET blanks == {k \in i..(Len(s) - 1) : s[k] = "\n" /\ s[k + 1] = "\n"}
    IN IF blanks = {} THEN 0
       ELSE CHOOSE k \in blanks : \A m \in blanks : k <= m
\* s.split("\n\n"): cut at each blank line, left to right
RECURSIVE SplitParas(_)
SplitParas(s) ==
    LET i == FindBlank(s, 1)
    IN IF i = 0 THEN <<s>>
       ELSE <<SubSeq(s, 1, i - 1)>> \o SplitParas(SubSeq(s, i + 2, Len(s)))

\* n copies of the character c
Rep(c, n) == [i \in 1..n |-> c]

(***************************************************************************)
(* Bounds of the model.                                                    *)
(***************************************************************************)
\* the longest list a sampled page or LLM answer holds
MaxItems == 5

(***************************************************************************)
(* Texts.                                                                  *)
(***************************************************************************)
Ada == <<"A", "d", "a">>
Lovelace == <<"L", "o", "v", "e", "l", "a", "c", "e">>
AcmeCorp == <<"A", "c", "m", "e", " ", "C", "o", "r", "p">>
\* f"Professionnel chez {profile.company}"
HeadlinePrefix == <<"P", "r", "o", "f", "e", "s", "s", "i", "o", "n", "n", "e", "l",
                    " ", "c", "h", "e", "z", " ">>
\* f"{first_name} {last_name} travaille chez {company}."
SummaryMiddle == <<" ", "t", "r", "a", "v", "a", "i", "l", "l", "e", " ", "c", "h",
                   "e", "z", " ">>
\* "Poste non spécifié" (the accents written without)
UnspecifiedRole == <<"P", "o", "s", "t", "e", " ", "n", "o", "n", " ", "s", "p", "e",
                     "c", "i", "f", "i", "e">>
(***************************************************************************)
(* src/src/models/profile.py: the pydantic models.  A constructor raises   *)
(* ValidationError when a field does not have its declared type; the       *)
(* ...Valid predicates say when it does not raise.                         *)
(***************************************************************************)
RequiredFields == {"first_name", "last_name", "company"}

\* BaseProfile(**body): three required fields of type str
BaseProfileValid(body) ==
    /\ IsDict(body)
    /\ \A k \in RequiredFields : k \in DOMAIN body.v /\ IsStr(body.v[k])
BaseProfile(body) ==
    Obj("BaseProfile", [first_name |-> body.v["first_name"],
                        last_name |-> body.v["last_name"],
                        company |-> body.v["company"]])
\* BaseProfile.getFullName
getFullName(p) == Str(p.v.first_name.v \o <<" ">> \o p.v.last_name.v)

ExperienceValid(title, company, start_date, end_date, location, description, is_current) ==
    /\ IsStr(title) /\ IsStr(company)
    /\ IsOptStr(start_date) /\ IsOptStr(end_date)
    /\ IsOptStr(location) /\ IsOptStr(description)
    /\ is_current.t = "bool"
Experience(title, company, start_date, end_date, location, description, is_current) ==
    Obj("Experience", [title |-> title, company |-> company,
                       start_date |-> start_date, end_date |-> end_date,
                       duration |-> None, location |-> location,
                       description |-> description,
                       key_achievements |-> EmptyList, is_current |-> is_current])

LinkedInPostValid(content, date, url) ==
    IsStr(content) /\ IsOptStr(date) /\ IsOptStr(url)
LinkedInPost(content, date, url) ==
    Obj("LinkedInPost", [content |-> content, date |-> date, summary |-> None,
                         themes |-> EmptyList, engagement_level |-> None, url |-> url])

LinkedInAnalysisValid(posts, recurring_themes, overall_tone, posting_frequency) ==
    /\ IsList(posts) /\ IsListOfStr(recurring_themes)
    /\ IsOptStr(overall_tone) /\ IsOptStr(posting_frequency)
LinkedInAnalysis(posts, recurring_themes, overall_tone, posting_frequency) ==
    Obj("LinkedInAnalysis", [posts |-> posts, recurring_themes |-> recurring_themes,
                             expertise_level |-> None, authority_signals |-> None,
                             overall_tone |-> overall_tone,
                             posting_frequency |-> posting_frequency])

ReputationAnalysisValid(summary, strengths, weak_signals) ==
    IsOptStr(summary) /\ IsListOfStr(strengths) /\ IsListOfStr(weak_signals)
ReputationAnalysis(summary, strengths, weak_signals) ==
    Obj("ReputationAnalysis", [quality_score |-> None, peer_recognition |-> None,
                               interaction_quality |-> None, strengths |-> strengths,
                               weak_signals |-> weak_signals, summary |-> summary])

\* score: int = Field(ge=0, le=100); justification: str; factors: List[str]
ReliabilityScoreValid(score, justification, factors) ==
    /\ score \in 0..100
    /\ IsStr(justification)
    /\ IsList(factors)
ReliabilityScore(score, justification, factors) ==
    Obj("ReliabilityScore", [score |-> score, justification |-> justification,
                             factors |-> factors])

ContactInfoValid(linkedin_url, website, twitter, github, image_url) ==
    /\ IsOptStr(linkedin_url) /\ IsOptStr(website) /\ IsOptStr(twitter)
    /\ IsOptStr(github) /\ IsOptStr(image_url)
ContactInfo(linkedin_url, website, twitter, github, image_url) ==
    Obj("ContactInfo", [email |-> None, phone |-> None, linkedin_url |-> linkedin_url,
                        twitter |-> twitter, website |-> website, github |-> github,
                        image_url |-> image_url])

\* the typed fields of EnrichedProfile that _assemble_profile fills
EnrichedProfileValid(f) ==
    /\ IsStr(f.first_name) /\ IsStr(f.last_name) /\ IsOptStr(f.company)
    /\ IsOptStr(f.headline) /\ IsOptStr(f.current_role) /\ IsOptStr(f.summary)
    /\ IsList(f.experiences)
    /\ \A i \in 1..Len(f.experiences.v) : f.experiences.v[i].t = "Experience"
    /\ IsListOfStr(f.skills) /\ IsListOfStr(f.education)
    /\ IsListOfStr(f.publications) /\ IsListOfStr(f.speaking_engagements)
    /\ IsListOfStr(f.sources_used)
EnrichedProfile(f) == Obj("EnrichedProfile", f)

(***************************************************************************)
(* src/src/services/scoring.py: ReliabilityScorer.                         *)
(* A factor string is kept as the record of what it is formatted from.     *)
(***************************************************************************)
Factor(kind, n) == [kind |-> kind, n |-> n]
EmptyFn == [k \in {} |-> 0]

\* source_score = min(10 * len(sources_used), 40)
SourcePoints(sources_used) == Min(10 * PyLen(sources_used), 40)

\* if headline: score += 8
HeadlinePoints(headline) == IF Truthy(headline) THEN 8 ELSE 0

\* faulty variant of SummaryPoints: nothing for a summary of at most 100 characters
SummaryPoints_LongOnly(summary) ==
    IF Truthy(summary) /\ PyLen(summary) > 100 THEN 10 ELSE 0
\* if summary and len(summary) > 100: +10   elif summary: +5
SummaryPoints(summary) ==
    IF Truthy(summary) /\ PyLen(summary) > 100 THEN 10
    ELSE IF Truthy(summary) THEN 5
    ELSE 0

\* faulty variant of ExperiencePoints: the cap of 12 forgotten
ExperiencePoints_NoCap(experiences) ==
    IF Truthy(experiences) /\ PyLen(experiences) > 0
    THEN 4 * PyLen(experiences) ELSE 0
\* exp_score = min(4 * len(experiences), 12)
ExperiencePoints(experiences) ==
    IF Truthy(experiences) /\ PyLen(experiences) > 0
    THEN Min(4 * PyLen(experiences), 12) ELSE 0

\* faulty variant of PublicationPoints: the cap of 8 forgotten
PublicationPoints_NoCap(publications) ==
    IF Truthy(publications) /\ PyLen(publications) > 0
    THEN 2 * PyLen(publications) ELSE 0
\* pub_score = min(2 * len(publications), 8)
PublicationPoints(publications) ==
    IF Truthy(publications) /\ PyLen(publications) > 0
    THEN Min(2 * PyLen(publications), 8) ELSE 0

\* post_score = min(2 * len(posts), 8)
PostPoints(posts) ==
    IF Truthy(posts) /\ PyLen(posts) > 0
    THEN Min(2 * PyLen(posts), 8) ELSE 0

\* edu_score = min(3 * len(education), 6)
EducationPoints(education) ==
    IF Truthy(education) /\ PyLen(education) > 0
    THEN Min(3 * PyLen(education), 6) ELSE 0

\* if skills and len(skills) >= 3: score += 4
SkillPoints(skills) ==
    IF Truthy(skills) /\ PyLen(skills) >= 3 THEN 4 ELSE 0

\* len([v for v in social_profiles.values() if v])
SocialCount(social_profiles) ==
    Cardinality({k \in DOMAIN social_profiles.v : Truthy(social_profiles.v[k])})
\* social_score = min(2 * social_count, 4)
SocialPoints(social_profiles) ==
    IF Truthy(social_profiles) /\ SocialCount(social_profiles) > 0
    THEN Min(2 * SocialCount(social_profiles), 4) ELSE 0

\* calculate_score raises TypeError on len() of a truthy summary that has no len
CalculateScoreRaises(a) == Truthy(a.summary) /\ ~HasLen(a.summary)

\* ReliabilityScorer.calculate_score: {"score", "factors", "breakdown"}
calculate_score(a) ==
    LET experiences == Or(a.experiences, EmptyList)
        publications == Or(a.publications, EmptyList)
        posts == Or(a.posts, EmptyList)
        education == Or(a.education, EmptyList)
        skills == Or(a.skills, EmptyList)
        social_profiles == Or(a.social_profiles, EmptyDict)
        Entry(k, pts) == IF pts > 0 THEN k :> pts ELSE EmptyFn
        Line(k, pts, n) == IF pts > 0 THEN <<Factor(k, n)>> ELSE <<>>
        breakdown ==
            ("sources" :> SourcePoints(a.sources_used))
            @@ Entry("headline", HeadlinePoints(a.headline))
            @@ Entry("summary", SummaryPoints(a.summary))
            @@ Entry("experiences", ExperiencePoints(experiences))
            @@ Entry("publications", PublicationPoints(publications))
            @@ Entry("posts", PostPoints(posts))
            @@ Entry("education", EducationPoints(education))
            @@ Entry("skills", SkillPoints(skills))
            @@ Entry("social", SocialPoints(social_profiles))
        factors ==
            (IF Truthy(a.sources_used)
             THEN <<Factor("sources", PyLen(a.sources_used))>> ELSE <<>>)
            \o Line("headline", HeadlinePoints(a.headline), 1)
            \o Line("summary", SummaryPoints(a.summary), SummaryPoints(a.summary))
            \o Line("experiences", ExperiencePoints(experiences), PyLen(experiences))
            \o Line("publications", PublicationPoints(publications), PyLen(publications))
            \o Line("posts", PostPoints(posts), PyLen(posts))
            \o Line("education", EducationPoints(education), PyLen(education))
            \o Line("skills", SkillPoints(skills), PyLen(skills))
            \o Line("social", SocialPoints(social_profiles), SocialCount(social_profiles))
        score ==
            SourcePoints(a.sources_used) + HeadlinePoints(a.headline)
            + SummaryPoints(a.summary) + ExperiencePoints(experiences)
            + PublicationPoints(publications) + PostPoints(posts)
            + EducationPoints(education) + SkillPoints(skills)
            + SocialPoints(social_profiles)
    IN [score |-> Max(0, Min(100, score)), factors |-> factors, breakdown |-> breakdown]

\* ReliabilityScorer.get_reliability_level: the band of a score
get_reliability_level(score) ==
    IF score >= 85 THEN "Excellent"
    ELSE IF score >= 70 THEN "Bon"
    ELSE IF score >= 50 THEN "Moyen"
    ELSE IF score >= 30 THEN "Faible"
    ELSE "Tres faible"

(***************************************************************************)
(* src/src/services/llm_analyzer.py: LLMAnalyzer.                          *)
(* What _call_llm returns is a text; the model keeps the text and what     *)
(* json.loads makes of it (NoJson: json.loads raises JSONDecodeError).     *)
(* _call_llm catches every exception of the client and returns "".         *)
(***************************************************************************)
NoJson == [t |-> "JSONDecodeError"]
Response(raw, json) == [raw |-> raw, json |-> json]
\* _call_llm when the client call raised
FailedResponse == Response(EmptyStr, NoJson)
\* a reply that is not JSON
ProseResponse == Response(Tok("prose"), NoJson)
\* a reply that is the JSON text of the value v
JsonResponse(v) == Response(Tok("json"), v)
Parses(resp) == resp.json # NoJson

\* clean_and_structure asks the LLM only when there is some content
StructureCalls(raw_content) ==
    Truthy(Get(raw_content, "markdown", EmptyStr))
    \/ Truthy(Get(raw_content, "html", EmptyStr))
\* LLMAnalyzer.clean_and_structure
clean_and_structure(raw_content, resp) ==
    IF ~StructureCalls(raw_content) THEN EmptyDict
    ELSE IF Parses(resp) THEN resp.json
    ELSE EmptyDict

\* LLMAnalyzer._get_empty_enrichment_fallback
EmptyEnrichmentFallback ==
    Dict([headline |-> None, summary |-> None, current_role |-> None,
          experiences |-> EmptyList, education |-> EmptyList, skills |-> EmptyList,
          notable_achievements |-> EmptyList, bio_summary |-> None,
          confidence |-> Tok("none"), _source |-> Tok("llm_knowledge_base"),
          _warning |-> Tok("echec"), _error |-> Bool(TRUE)])

\* Experience(title=exp.get("title", ""), company=exp.get("company", ""), ...)
KnowledgeExperienceOk(exp) ==
    /\ IsDict(exp)
    /\ ExperienceValid(Get(exp, "title", EmptyStr), Get(exp, "company", EmptyStr),
                       GetN(exp, "start_date"), GetN(exp, "end_date"), None,
                       GetN(exp, "description"), Get(exp, "is_current", Bool(FALSE)))
KnowledgeExperience(exp) ==
    Experience(Get(exp, "title", EmptyStr), Get(exp, "company", EmptyStr),
               GetN(exp, "start_date"), GetN(exp, "end_date"), None,
               GetN(exp, "description"), Get(exp, "is_current", Bool(FALSE)))
\* LLMAnalyzer.enrich_from_knowledge: every exception gives the empty fallback
enrich_from_knowledge(resp) ==
    IF ~Parses(resp) \/ ~IsDict(resp.json) THEN EmptyEnrichmentFallback
    ELSE LET data == Dict(("_source" :> Tok("llm_knowledge_base"))
                          @@ ("_warning" :> Tok("obsolete")) @@ resp.json.v)
             exps == GetN(data, "experiences")
         IN IF ~Truthy(exps) THEN data
            ELSE IF ~IsList(exps) \/ \E i \in 1..Len(exps.v) : ~KnowledgeExperienceOk(exps.v[i])
            THEN EmptyEnrichmentFallback
            ELSE Dict(("experiences" :>
                         List([i \in 1..Len(exps.v) |-> KnowledgeExperience(exps.v[i])]))
                      @@ data.v)

\* LLMAnalyzer.summarize_posts
SummarizeDefault ==
    Dict([summaries |-> EmptyList, recurring_themes |-> EmptyList,
          overall_tone |-> None, posting_frequency |-> None])
SummarizeFailed ==
    Dict([summaries |-> EmptyList, recurring_themes |-> EmptyList,
          overall_tone |-> Tok("indetermine"), posting_frequency |-> Tok("indeterminee")])
summarize_posts(posts, resp) ==
    IF ~Truthy(posts) THEN SummarizeDefault
    ELSE IF Parses(resp) THEN resp.json
    ELSE SummarizeFailed

\* global_synthesis slices profile_data["summary"][:500] before its try block
GlobalSynthesisRaises(summary) == summary.t \notin {"str", "list"}
SynthesisUnavailable ==
    Dict([synthesis |-> Tok("Profil professionnel de ..."), strengths |-> EmptyList,
          weak_signals |-> EmptyList,
          reliability_justification |-> Tok("Synthese automatique indisponible")])
\* LLMAnalyzer.global_synthesis
global_synthesis(resp) == IF Parses(resp) THEN resp.json ELSE SynthesisUnavailable

\* LLMAnalyzer.justify_reliability: {"justification": ...}
justify_reliability(resp) ==
    IF Parses(resp) /\ IsDict(resp.json)
    THEN Dict([justification |-> Get(resp.json, "justification", resp.raw)])
    ELSE Dict([justification |-> resp.raw])

(***************************************************************************)
(* src/src/services/profile_orchestrator.py: the pure steps of             *)
(* ProfileOrchestrator._extract_profile_data.                              *)
(***************************************************************************)
\* [F(x) for x in xs if Ok(x)]: the try/except-continue loops
RECURSIVE MapOk(_, _, _, _)
MapOk(xs, Ok(_), F(_), i) ==
    IF i > Len(xs) THEN <<>>
    ELSE (IF Ok(xs[i]) THEN <<F(xs[i])>> ELSE <<>>) \o MapOk(xs, Ok, F, i + 1)

\* for x in v: a str yields its characters, a dict its keys
Iterable(v) == v.t \in {"list", "str", "dict"}
Items(v) ==
    IF IsList(v) THEN v.v
    ELSE IF IsStr(v) THEN [i \in 1..Len(v.v) |-> Str(<<v.v[i]>>)]
    ELSE <<>>

SrcLinkedin == Tok("linkedin")
SrcCompany == Tok("company")
SrcNews == Tok("news")
SrcSocial == Tok("social")

\* faulty variant of _identify_sources: the social test placed before the news test
_identify_sources_SocialFirst(results) ==
    List((IF Truthy(GetN(results.linkedin, "url")) THEN <<SrcLinkedin>> ELSE <<>>)
         \o (IF Truthy(GetN(results.company, "company_website")) THEN <<SrcCompany>> ELSE <<>>)
         \o (IF Truthy(results.social) THEN <<SrcSocial>> ELSE <<>>)
         \o (IF Truthy(GetN(results.news, "total_mentions")) THEN <<SrcNews>> ELSE <<>>))
\* faulty variant of _identify_sources: a source listed for any non-empty payload
_identify_sources_AnyPayload(results) ==
    List((IF Truthy(results.linkedin) THEN <<SrcLinkedin>> ELSE <<>>)
         \o (IF Truthy(results.company) THEN <<SrcCompany>> ELSE <<>>)
         \o (IF Truthy(GetN(results.news, "total_mentions")) THEN <<SrcNews>> ELSE <<>>)
         \o (IF Truthy(results.social) THEN <<SrcSocial>> ELSE <<>>))
\* ProfileOrchestrator._identify_sources
_identify_sources(results) ==
    List((IF Truthy(GetN(results.linkedin, "url")) THEN <<SrcLinkedin>> ELSE <<>>)
         \o (IF Truthy(GetN(results.company, "company_website")) THEN <<SrcCompany>> ELSE <<>>)
         \o (IF Truthy(GetN(results.news, "total_mentions")) THEN <<SrcNews>> ELSE <<>>)
         \o (IF Truthy(results.social) THEN <<SrcSocial>> ELSE <<>>))

\* for para in content.split("\n\n"): if full_name.lower() in para.lower():
\*     summary = para.strip()[:400]; break
RECURSIVE FirstNaming(_, _, _)
FirstNaming(paras, full_name, i) ==
    IF i > Len(paras) THEN None
    ELSE IF Contains(Lower(paras[i]), full_name) THEN Str(Take(Strip(paras[i]), 400))
    ELSE FirstNaming(paras, full_name, i + 1)
NameParagraph(profile, content) ==
    FirstNaming(SplitParas(content.v), Lower(getFullName(profile).v), 1)

\* ProfileOrchestrator._extract_headline_summary: <<headline, summary>>
_extract_headline_summary(profile, company_result, li_result) ==
    LET content == GetN(Get(company_result, "company_info", EmptyDict), "full_content")
        s1 == IF Truthy(content) THEN NameParagraph(profile, content) ELSE None
        bio == GetN(Get(company_result, "person_profile", EmptyDict), "bio")
        s2 == IF ~Truthy(s1) /\ Truthy(bio) THEN bio ELSE s1
        about == GetN(Get(li_result, "profile", EmptyDict), "about")
        s3 == IF ~Truthy(s2) /\ Truthy(about) THEN about ELSE s2
    IN <<None, s3>>

\* the dict _enrich_with_llm hands to clean_and_structure
RawContent(company_result) ==
    Dict([markdown |-> Get(Get(company_result, "company_info", EmptyDict),
                           "full_content", EmptyStr),
          html |-> Get(Get(company_result, "company_info", EmptyDict),
                       "html", EmptyStr)])

\* _enrich_with_llm: the guards of its two calls
StructuringInvoked(headline, summary) == ~Truthy(headline) \/ ~Truthy(summary)
KnowledgeInvoked(headline, summary) == ~Truthy(headline) /\ ~Truthy(summary)

\* ProfileOrchestrator._enrich_with_llm: <<structured, llm_enrichment>>
_enrich_with_llm(headline, summary, company_result, respS, respK) ==
    <<IF StructuringInvoked(headline, summary)
      THEN Or(clean_and_structure(RawContent(company_result), respS), EmptyDict)
      ELSE EmptyDict,
      IF KnowledgeInvoked(headline, summary)
      THEN enrich_from_knowledge(respK)
      ELSE EmptyDict>>

\* f"Professionnel chez {profile.company}"
HeadlineTemplate(profile) == Str(HeadlinePrefix \o profile.v.company.v)
\* f"{profile.first_name} {profile.last_name} travaille chez {profile.company}."
SummaryTemplate(profile) ==
    Str(profile.v.first_name.v \o <<" ">> \o profile.v.last_name.v
        \o SummaryMiddle \o profile.v.company.v \o <<".">>)

\* lines 124-131 call structured.get(...) whenever the direct value is falsy
MergeRaises(headline, summary, structured) ==
    (~Truthy(headline) \/ ~Truthy(summary)) /\ ~IsDict(structured)
\* faulty variant of MergeHeadline: the ladder without its template step
MergeHeadline_NoTemplate(profile, headline, structured, llm_enrichment) ==
    Or(Or(headline, GetN(structured, "headline")), GetN(llm_enrichment, "headline"))
\* headline or structured.get("headline") or llm_enrichment.get("headline") or template
MergeHeadline(profile, headline, structured, llm_enrichment) ==
    Or(Or(Or(headline, GetN(structured, "headline")),
          GetN(llm_enrichment, "headline")),
       HeadlineTemplate(profile))
\* faulty variant of MergeSummary: the knowledge fallback asked before the structuring
MergeSummary_KnowledgeFirst(profile, summary, structured, llm_enrichment) ==
    Or(Or(Or(summary, GetN(llm_enrichment, "summary")),
          GetN(structured, "summary")),
       SummaryTemplate(profile))
\* summary or structured.get("summary") or llm_enrichment.get("summary") or template
MergeSummary(profile, summary, structured, llm_enrichment) ==
    Or(Or(Or(summary, GetN(structured, "summary")),
          GetN(llm_enrichment, "summary")),
       SummaryTemplate(profile))

\* ProfileOrchestrator._extract_current_role
_extract_current_role(company_result, llm_enrichment) ==
    LET role == GetN(Get(company_result, "person_profile", EmptyDict), "role")
        r2 == IF ~Truthy(role) /\ Truthy(GetN(llm_enrichment, "current_role"))
              THEN GetN(llm_enrichment, "current_role") ELSE role
    IN Or(r2, Str(UnspecifiedRole))

\* _extract_experiences iterates structured["experiences"] outside any try
ExperiencesRaises(structured) ==
    /\ Truthy(structured)
    /\ Truthy(GetN(structured, "experiences"))
    /\ ~Iterable(GetN(structured, "experiences"))
\* _extract_experiences, lines 294-320: the experiences of the company payload,
\* then those of the structuring; an entry that fails validation is skipped
ScrapedExperiences(profile, company_result, structured) ==
    LET CoOk(exp) ==
            /\ IsDict(exp)
            /\ ExperienceValid(Or(GetN(exp, "title"), EmptyStr), profile.v.company,
                               None, None, None, GetN(exp, "description"), Bool(FALSE))
        CoExp(exp) ==
            Experience(Or(GetN(exp, "title"), EmptyStr), profile.v.company,
                       None, None, None, GetN(exp, "description"), Bool(FALSE))
        StOk(exp) ==
            /\ IsDict(exp)
            /\ ExperienceValid(Or(GetN(exp, "title"), EmptyStr),
                               Or(GetN(exp, "company"), profile.v.company),
                               GetN(exp, "start_date"), GetN(exp, "end_date"),
                               GetN(exp, "location"), GetN(exp, "description"),
                               Bool(FALSE))
        StExp(exp) ==
            Experience(Or(GetN(exp, "title"), EmptyStr),
                       Or(GetN(exp, "company"), profile.v.company),
                       GetN(exp, "start_date"), GetN(exp, "end_date"),
                       GetN(exp, "location"), GetN(exp, "description"), Bool(FALSE))
        fromCompany ==
            MapOk(Items(Or(Get(Get(company_result, "person_profile", EmptyDict),
                               "experiences", EmptyList), EmptyList)),
                  CoOk, CoExp, 1)
        fromStructured ==
            IF Truthy(structured)
            THEN MapOk(Items(Or(GetN(structured, "experiences"), EmptyList)), StOk, StExp, 1)
            ELSE <<>>
    IN fromCompany \o fromStructured
\* faulty variant of _extract_experiences: the knowledge-fallback list appended
\* whether or not the sources gave experiences
_extract_experiences_AlwaysKnowledge(profile, company_result, structured, llm_enrichment) ==
    List(ScrapedExperiences(profile, company_result, structured)
         \o Items(Or(GetN(llm_enrichment, "experiences"), EmptyList)))
\* ProfileOrchestrator._extract_experiences
_extract_experiences(profile, company_result, structured, llm_enrichment) ==
    LET scraped == ScrapedExperiences(profile, company_result, structured)
    IN IF scraped = <<>> /\ Truthy(GetN(llm_enrichment, "experiences"))
       THEN List(Items(GetN(llm_enrichment, "experiences")))
       ELSE List(scraped)

\* ProfileOrchestrator._extract_education / _extract_skills (same ladder)
ListLadder(structured, llm_enrichment, key) ==
    LET own == IF Truthy(structured) THEN Or(GetN(structured, key), EmptyList)
               ELSE EmptyList
        got == IF ~Truthy(own) /\ Truthy(GetN(llm_enrichment, key))
               THEN Get(llm_enrichment, key, EmptyList) ELSE own
    IN IF IsList(got) THEN got ELSE EmptyList
_extract_education(structured, llm_enrichment) ==
    ListLadder(structured, llm_enrichment, "education")
_extract_skills(structured, llm_enrichment) ==
    ListLadder(structured, llm_enrichment, "skills")

Dash == <<" ", "-", " ">>
\* ProfileOrchestrator._extract_publications
_extract_publications(news_result) ==
    LET ArtOk(art) == Truthy(GetN(art, "title")) /\ Truthy(GetN(art, "url"))
        ArtLine(art) == Str(GetN(art, "title").v \o Dash \o GetN(art, "url").v)
        PmOk(pm) == Truthy(GetN(pm, "source"))
        PmLine(pm) == Str(<<"Mention">> \o Dash \o GetN(pm, "source").v)
    IN List(MapOk(Items(Or(Get(news_result, "news_articles", EmptyList), EmptyList)),
                  ArtOk, ArtLine, 1)
            \o MapOk(Items(Or(Get(news_result, "professional_mentions", EmptyList),
                              EmptyList)),
                     PmOk, PmLine, 1))

SpeakingKeys == {<<"k", "e", "y", "n", "o", "t", "e">>, <<"t", "a", "l", "k">>,
                 <<"s", "p", "e", "e", "c", "h">>,
                 <<"c", "o", "n", "f", "e'", "r", "e", "n", "c", "e">>}
\* ProfileOrchestrator._extract_speaking
_extract_speaking(company_result) ==
    LET Title(m) == Or(GetN(m, "title"), EmptyStr)
        Talk(m) == \E k \in SpeakingKeys : Contains(Lower(Title(m).v), k)
        TalkLine(m) == Str(Title(m).v \o Dash \o Get(m, "url", EmptyStr).v)
    IN List(MapOk(Items(Or(Get(company_result, "person_mentions", EmptyList), EmptyList)),
                  Talk, TalkLine, 1))

EmptyAnalysis == LinkedInAnalysis(EmptyList, EmptyList, None, None)
\* the LinkedInPost objects of the payload's posts; a post that fails validation is skipped
PostObjects(li_result) ==
    LET PostOk(p) ==
            IsDict(p) /\ LinkedInPostValid(Get(p, "content", EmptyStr),
                                           GetN(p, "date"), GetN(p, "url"))
        PostObj(p) == LinkedInPost(Get(p, "content", EmptyStr), GetN(p, "date"), GetN(p, "url"))
    IN List(MapOk(Items(Or(Get(li_result, "posts", EmptyList), EmptyList)), PostOk, PostObj, 1))
\* _analyze_linkedin_posts calls summarize_posts only for a non-empty post list
SummarizeInvoked(li_result) ==
    Iterable(Or(Get(li_result, "posts", EmptyList), EmptyList))
    /\ Truthy(PostObjects(li_result))
\* ProfileOrchestrator._analyze_linkedin_posts: any exception gives the empty analysis
_analyze_linkedin_posts(li_result, respP) ==
    IF ~Iterable(Or(Get(li_result, "posts", EmptyList), EmptyList)) THEN EmptyAnalysis
    ELSE LET objs == PostObjects(li_result)
             posts_summary ==
                 IF Truthy(objs) THEN Or(summarize_posts(objs, respP), SummarizeDefault)
                 ELSE SummarizeDefault
         IN IF ~IsDict(posts_summary) THEN EmptyAnalysis
            ELSE IF LinkedInAnalysisValid(objs,
                        Get(posts_summary, "recurring_themes", EmptyList),
                        GetN(posts_summary, "overall_tone"),
                        GetN(posts_summary, "posting_frequency"))
            THEN LinkedInAnalysis(objs,
                        Get(posts_summary, "recurring_themes", EmptyList),
                        GetN(posts_summary, "overall_tone"),
                        GetN(posts_summary, "posting_frequency"))
            ELSE EmptyAnalysis

\* the arguments _extract_contact_info gives to ContactInfo
ContactArgs(li_result, company_result, social_result) ==
    [linkedin_url |-> GetN(li_result, "url"),
     website |-> GetN(company_result, "company_website"),
     twitter |-> GetN(Or(Get(social_result, "twitter", EmptyDict), EmptyDict), "url"),
     github |-> GetN(Or(Get(social_result, "github", EmptyDict), EmptyDict), "url"),
     image_url |-> GetN(Or(Get(company_result, "person_profile", EmptyDict), EmptyDict),
                        "image_url")]
ContactRaises(li_result, company_result, social_result) ==
    LET a == ContactArgs(li_result, company_result, social_result)
    IN ~ContactInfoValid(a.linkedin_url, a.website, a.twitter, a.github, a.image_url)
\* ProfileOrchestrator._extract_contact_info
_extract_contact_info(li_result, company_result, social_result) ==
    LET a == ContactArgs(li_result, company_result, social_result)
    IN ContactInfo(a.linkedin_url, a.website, a.twitter, a.github, a.image_url)

\* the except branch of _extract_profile_data around _generate_synthesis
SynthesisExcept ==
    Dict([synthesis |-> Tok("Profil de ... Donnees limitees disponibles."),
          strengths |-> EmptyList, weak_signals |-> EmptyList,
          reliability_justification |-> Tok("Donnees limitees pour ce profil.")])
\* ProfileOrchestrator._generate_synthesis inside its try/except
_generate_synthesis(summary, respG) ==
    IF GlobalSynthesisRaises(summary) THEN SynthesisExcept ELSE global_synthesis(respG)

(***************************************************************************)
(* src/src/services/sources: what each collector's scrape returns, from    *)
(* what its fetches found.                                                 *)
(***************************************************************************)
\* LinkedInScraper.scrape: the empty payload when no profile URL was found
\* (or the body raised), else profile, posts[:10], comments and url
LinkedInEmpty ==
    Dict([error |-> Tok("Profil LinkedIn non trouve"), profile |-> EmptyDict,
          posts |-> EmptyList, comments |-> EmptyList, url |-> None])
LinkedInScrape(linkedin_url, profile_page, posts) ==
    IF ~Truthy(linkedin_url) THEN LinkedInEmpty
    ELSE Dict([profile |-> profile_page, posts |-> List(Take(posts, 10)),
               comments |-> EmptyList, url |-> linkedin_url])

\* CompanyScraper.scrape: {"error": ...} when no site was found
CompanyEmpty == Dict([error |-> Tok("Site d'entreprise non trouve")])
\* CompanyScraper._scrape_company_info: {} when the home page fetch raised
CompanyInfo(content, html) ==
    Dict([description |-> Str(Take(content, 500)), full_content |-> Str(content),
          html |-> Str(Take(html, 2000))])
CompanyScrape(company_url, company_info, person_mentions, person_profile) ==
    IF ~Truthy(company_url) THEN CompanyEmpty
    ELSE Dict([company_website |-> company_url, company_info |-> company_info,
               pages |-> EmptyList, person_mentions |-> List(person_mentions),
               person_profile |-> person_profile])

\* NewsScraper.scrape: total_mentions = len(articles) + len(pro_mentions);
\* _search_news_articles keeps articles[:5]
NewsScrape(articles, pro_mentions) ==
    Dict([news_articles |-> List(Take(articles, 5)),
          professional_mentions |-> List(pro_mentions),
          total_mentions |-> PyInt(Len(Take(articles, 5)) + Len(pro_mentions))])

\* SocialScraper.scrape: an entry for each network whose search found a URL
Found(url) == Dict([url |-> Tok(url), found |-> Bool(TRUE)])
SocialScrape(twitter, medium, github) ==
    Dict((IF Truthy(twitter) THEN "twitter" :> twitter ELSE EmptyFn)
         @@ (IF Truthy(medium) THEN "medium" :> medium ELSE EmptyFn)
         @@ (IF Truthy(github) THEN "github" :> github ELSE EmptyFn))

(***************************************************************************)
(* Samples of what the outside world answers.                              *)
(***************************************************************************)
\* request bodies: a full identity, one with an empty first name, one with a
\* null last name, one without company
Body(first, last, company) ==
    Dict([first_name |-> first, last_name |-> last, company |-> company])
Bodies ==
    {Body(Str(Ada), Str(Lovelace), Str(AcmeCorp)),
     Body(EmptyStr, Str(Lovelace), Str(AcmeCorp)),
     Body(Str(Ada), None, Str(AcmeCorp)),
     Dict([first_name |-> Str(Ada), last_name |-> Str(Lovelace)])}

\* an About line of a network profile (the parser keeps lines longer than 50)
AboutLong == Str(Rep("a", 101))
PostDict(n) == Dict([content |-> Tok("post"), date |-> None, url |-> None])
PostList(n) == [i \in 1..n |-> PostDict(i)]
\* <<url found, profile page, posts of the activity page>>: the payloads a
\* collector may hand to the orchestrator; CollectorSpec derives the payloads of
\* the collectors of src/src/services/sources from what their fetches do
LinkedInWorlds ==
    {<<None, EmptyDict, <<>>>>,
     <<Tok("linkedin.com/in/ada-lovelace"), Dict([about |-> AboutLong]), <<>>>>,
     <<Tok("linkedin.com/in/ada-lovelace"), Dict([raw_content |-> Tok("md")]),
       PostList(MaxItems)>>}

\* a home page: the second paragraph names the person, in another case, and is
\* longer than the 400 characters kept of it; the third names the person too
HomePage ==
    <<"A", "c", "m", "e", "\n", "\n", " ", "a", "d", "a", " ", "L", "O", "V", "E",
      "L", "A", "C", "E", " ">> \o Rep("x", 400) \o <<" ", "\n", "\n",
      "A", "d", "a", " ", "L", "o", "v", "e", "l", "a", "c", "e", " ", "2">>
\* a home page that does not name the person
OtherPage == <<"A", "c", "m", "e", " ", "n", "e", "w", "s">>
\* a biography of the person profile (the extractor keeps paragraphs longer than 50)
BioShort == Str(<<"A", "d", "a", " ", "L", "o", "v", "e", "l", "a", "c", "e">> \o Rep("b", 50))
NoPerson ==
    Dict([bio |-> None, role |-> None, image_url |-> None, experiences |-> EmptyList])
PersonWithBio ==
    Dict([bio |-> BioShort, role |-> Tok("CEO"), image_url |-> None,
          experiences |-> List(<<Dict([description |-> Tok("2019 joined")]),
                                 Dict([description |-> Tok("2021 promoted")])>>)])
\* a person page with dated lines and no paragraph long enough for a bio
PersonWithExperiences ==
    Dict([bio |-> None, role |-> None, image_url |-> None,
          experiences |-> List(<<Dict([description |-> Tok("2015 founded")]),
                                 Dict([description |-> Tok("2018 sold")])>>)])
Mention(title) == Dict([title |-> Str(title), url |-> Tok("acme.com/m"), snippet |-> EmptyStr])
\* <<site found, company_info, person_mentions, person_profile>>
CompanyWorlds ==
    {<<None, EmptyDict, <<>>, NoPerson>>,
     <<Tok("https://acmecorp.com"), EmptyDict, <<>>, PersonWithBio>>,
     <<Tok("https://acmecorp.com"), CompanyInfo(HomePage, <<"<", "p", ">">>),
       <<Mention(<<"T", "a", "l", "k", " ", "2", "4">>), Mention(<<"N", "e", "w", "s">>)>>,
       NoPerson>>,
     <<Tok("https://acmecorp.com"), CompanyInfo(OtherPage, <<>>), <<>>,
       PersonWithExperiences>>}

Article(i) == Dict([title |-> Tok("title"), url |-> Tok("news.com/a")])
ArticleNoUrl == Dict([title |-> Tok("title")])
ProMention == Dict([source |-> Tok("lesechos.fr"), found |-> Bool(TRUE), snippet |-> Tok("s")])
\* <<articles parsed, professional mentions>>
NewsWorlds ==
    {<<<<>>, <<>>>>,
     <<<<ArticleNoUrl>>, <<>>>>,
     <<[i \in 1..MaxItems |-> Article(i)], <<ProMention>>>>}

\* what each of the three social searches found
SocialFinds(url) == {None, Found(url)}

\* LLM answers to clean_and_structure
Skill(i) == Tok("skill")
StructuredRich ==
    Dict([headline |-> Tok("CTO"), summary |-> Str(Rep("s", 100)),
          skills |-> List([i \in 1..3 |-> Skill(i)]),
          experiences |-> List(<<Dict([title |-> Tok("CTO"), company |-> None]),
                                 Dict([title |-> Tok("Engineer"),
                                       company |-> Tok("Other Ltd")])>>),
          education |-> List(<<Tok("MSc")>>)])
StructuredNulls ==
    Dict([headline |-> None, summary |-> None, skills |-> None,
          experiences |-> None, education |-> None])
StructureResponses ==
    {FailedResponse, JsonResponse(StructuredRich), JsonResponse(StructuredNulls),
     JsonResponse(List(<<StructuredRich>>))}

\* LLM answers to enrich_from_knowledge
\* the first experience of the answer comes without its company
KnownExperience(i) ==
    IF i = 1
    THEN Dict([title |-> Tok("Role"), start_date |-> Tok("2019"),
               end_date |-> Tok("Present"), description |-> None,
               is_current |-> Bool(TRUE)])
    ELSE Dict([title |-> Tok("Role"), company |-> Tok("Acme Corp"),
               start_date |-> Tok("2019"), end_date |-> Tok("Present"),
               description |-> None, is_current |-> Bool(TRUE)])
Known(confidence) ==
    Dict([headline |-> Tok("Mathematician"), summary |-> Str(Rep("k", 101)),
          current_role |-> Tok("Analyst"),
          experiences |-> List([i \in 1..MaxItems |-> KnownExperience(i)]),
          education |-> List(<<Tok("BSc"), Tok("PhD")>>),
          skills |-> List([i \in 1..MaxItems |-> Skill(i)]),
          notable_achievements |-> EmptyList, bio_summary |-> None,
          confidence |-> Tok(confidence)])
Unknown ==
    Dict([headline |-> None, summary |-> None, current_role |-> None,
          experiences |-> EmptyList, education |-> EmptyList, skills |-> EmptyList,
          notable_achievements |-> EmptyList, bio_summary |-> None,
          confidence |-> Tok("low")])
KnowledgeResponses ==
    {FailedResponse, JsonResponse(Known("high")), JsonResponse(Known("low")),
     JsonResponse(Unknown), JsonResponse(List(<<Unknown>>))}

\* LLM answers to summarize_posts
SummarizeResponses ==
    {FailedResponse,
     JsonResponse(Dict([summaries |-> EmptyList, recurring_themes |-> List(<<Tok("AI")>>),
                        overall_tone |-> Tok("technique"), posting_frequency |-> None])),
     JsonResponse(Dict([summaries |-> None, recurring_themes |-> None,
                        overall_tone |-> None, posting_frequency |-> None]))}

\* LLM answers to global_synthesis
SynthesisResponses ==
    {FailedResponse,
     JsonResponse(Dict([synthesis |-> Tok("narrative"), strengths |-> List(<<Tok("s1")>>),
                        weak_signals |-> EmptyList,
                        reliability_justification |-> Tok("because")])),
     JsonResponse(Dict([synthesis |-> Tok("narrative"), strengths |-> None,
                        weak_signals |-> None])),
     JsonResponse(List(<<Tok("narrative")>>))}

\* LLM answers to justify_reliability
JustifyResponses ==
    {FailedResponse, ProseResponse,
     JsonResponse(Dict([justification |-> Tok("justified")])),
     JsonResponse(Dict([justification |-> List(<<Tok("a"), Tok("b")>>)]))}

(***************************************************************************)
(* The state of one request.                                               *)
(***************************************************************************)
VARIABLES
    pc,               \* where the request stands
    body,             \* the request body
    data,             \* the BaseProfile built from it
    scraping_results, \* the four payloads of _scrape_all_sources
    structured,       \* what clean_and_structure gave _enrich_with_llm
    profile_data,     \* the dict _extract_profile_data returns
    score_args,       \* the keyword arguments calculate_score was called with
    scoring_result,   \* what calculate_score returned
    reliability,      \* the ReliabilityScore of _calculate_reliability
    response,         \* what create_profile returns
    calls,            \* the collaborator methods invoked, in order
    error,            \* the exception that left create_profile, if any
    answers,          \* what the LLM (and, in CollectorSpec, each fetch) answered
    first,            \* the orchestrator's earlier request, once it serves another
    last_debug,       \* LinkedInScraper.last_debug of self.linkedin
    writers           \* the requests that assigned last_debug

vars == <<pc, body, data, scraping_results, structured, profile_data, score_args,
          scoring_result, reliability, response, calls, error, answers, first,
          last_debug, writers>>

NotYet == [t |-> "unset"]
\* no LLM call has answered yet, no fetch of a collector either
NoAnswers ==
    [structure |-> NotYet, knowledge |-> NotYet, posts |-> NotYet,
     synthesis |-> NotYet, justify |-> NotYet,
     fetches |-> [linkedin |-> NotYet, company |-> NotYet, news |-> NotYet,
                  social |-> NotYet]]
\* the number of the request the orchestrator is serving
RequestNo == IF first = NotYet THEN 1 ELSE 2

Init ==
    /\ pc = "request"
    /\ body \in Bodies
    /\ data = NotYet
    /\ scraping_results = [linkedin |-> NotYet, company |-> NotYet,
                           news |-> NotYet, social |-> NotYet]
    /\ structured = NotYet
    /\ profile_data = NotYet
    /\ score_args = NotYet
    /\ scoring_result = NotYet
    /\ reliability = NotYet
    /\ response = NotYet
    /\ calls = <<>>
    /\ error = "none"
    /\ answers = NoAnswers
    /\ first = NotYet
    /\ last_debug = EmptyDict
    /\ writers = {}

\* A request body becomes a BaseProfile, or is refused (models/profile.py, main.py)
Validate ==
    /\ pc = "request"
    /\ IF BaseProfileValid(body)
       THEN data' = BaseProfile(body) /\ pc' = "scrape_linkedin" /\ error' = error
       ELSE data' = data /\ pc' = "rejected" /\ error' = "ValidationError"
    /\ UNCHANGED <<body, scraping_results, structured, profile_data, score_args,
                   scoring_result, reliability, response, calls, answers, first,
                   last_debug, writers>>

\* what the outside world answers to a request: anything of the samples to the
\* first request; to the request that repeats it, what it answered the first
Replay(kind, key, samples) == IF first = NotYet THEN samples ELSE {first[kind][key]}

\* faulty variant of Called: the scrape called a second time
Called_Again(call, next) ==
    /\ calls' = calls \o <<call, call>>
    /\ pc' = next
    /\ UNCHANGED <<body, data, scraping_results, structured, profile_data, score_args,
                   scoring_result, reliability, response, error, answers, first>>
\* `await self.<src>.scrape(profile)` up to the collector's first fetch
Called(call, next) ==
    /\ calls' = Append(calls, call)
    /\ pc' = next
    /\ UNCHANGED <<body, data, scraping_results, structured, profile_data, score_args,
                   scoring_result, reliability, response, error, answers, first>>
\* the collector returns its payload to _scrape_all_sources
Scraped(src, next, payload) ==
    /\ scraping_results' = [scraping_results EXCEPT ![src] = payload]
    /\ pc' = next
    /\ UNCHANGED <<body, data, structured, profile_data, score_args, scoring_result,
                   reliability, response, calls, error, answers, first>>

\* LinkedInScraper._find_linkedin_profile: self.last_debug = {...}; the candidate
\* URLs are kept as the identity they are built from
DebugStart(profile) ==
    Dict([candidates |-> List(<<profile.v.first_name, profile.v.last_name,
                                profile.v.company>>),
          validated |-> None, search_google_used |-> Bool(FALSE),
          search_linkedin_used |-> Bool(FALSE)])
\* self.last_debug["validated"] = url
DebugValidated(debug, url) == Dict(("validated" :> url) @@ debug.v)

\* _scrape_all_sources: self.linkedin.scrape(profile) is called and runs to its
\* first fetch
CallLinkedIn ==
    /\ pc = "scrape_linkedin"
    /\ last_debug' = DebugStart(data)
    /\ writers' = writers \cup {RequestNo}
    /\ Called("linkedin.scrape", "await_linkedin")
\* _scrape_all_sources: li_result = await self.linkedin.scrape(profile)
ScrapeLinkedIn ==
    /\ pc = "await_linkedin"
    /\ \E p \in Replay("scraping_results", "linkedin",
                       {LinkedInScrape(w[1], w[2], w[3]) : w \in LinkedInWorlds}) :
          /\ Scraped("linkedin", "scrape_company", p)
          /\ last_debug' = DebugValidated(last_debug, GetN(p, "url"))
    /\ UNCHANGED writers

CallCompany ==
    /\ pc = "scrape_company"
    /\ Called("company.scrape", "await_company")
    /\ UNCHANGED <<last_debug, writers>>
\* _scrape_all_sources: company_result = await self.company.scrape(profile)
ScrapeCompany ==
    /\ pc = "await_company"
    /\ \E p \in Replay("scraping_results", "company",
                       {CompanyScrape(w[1], w[2], w[3], w[4]) : w \in CompanyWorlds}) :
          Scraped("company", "scrape_news", p)
    /\ UNCHANGED <<last_debug, writers>>

CallNews ==
    /\ pc = "scrape_news"
    /\ Called("news.scrape", "await_news")
    /\ UNCHANGED <<last_debug, writers>>
\* _scrape_all_sources: news_result = await self.news.scrape(profile)
ScrapeNews ==
    /\ pc = "await_news"
    /\ \E p \in Replay("scraping_results", "news",
                       {NewsScrape(w[1], w[2]) : w \in NewsWorlds}) :
          Scraped("news", "scrape_social", p)
    /\ UNCHANGED <<last_debug, writers>>

CallSocial ==
    /\ pc = "scrape_social"
    /\ Called("social.scrape", "await_social")
    /\ UNCHANGED <<last_debug, writers>>
\* _scrape_all_sources: social_result = await self.social.scrape(profile)
ScrapeSocial ==
    /\ pc = "await_social"
    /\ \E p \in Replay("scraping_results", "social",
                       {SocialScrape(tw, md, gh) :
                           tw \in SocialFinds("x.com/ada"),
                           md \in SocialFinds("medium.com/@ada"),
                           gh \in SocialFinds("github.com/ada")}) :
          Scraped("social", "extract", p)
    /\ UNCHANGED <<last_debug, writers>>

\* _extract_profile_data: the direct <<headline, summary>> of the payloads
Direct(profile, results) ==
    _extract_headline_summary(profile, results.company, results.linkedin)

\* the answers each LLM call of _extract_profile_data can get; a call that is
\* not made, or returns before _call_llm, has none
StructureAnswers(profile, results) ==
    LET hs == Direct(profile, results)
    IN IF StructuringInvoked(hs[1], hs[2]) /\ StructureCalls(RawContent(results.company))
       THEN StructureResponses ELSE {FailedResponse}
KnowledgeAnswers(profile, results) ==
    LET hs == Direct(profile, results)
    IN IF KnowledgeInvoked(hs[1], hs[2]) THEN KnowledgeResponses ELSE {FailedResponse}
SummarizeAnswers(results) ==
    IF SummarizeInvoked(results.linkedin) THEN SummarizeResponses ELSE {FailedResponse}

\* ProfileOrchestrator._extract_profile_data: the exception it raises ("none" when
\* it returns), the LLM calls it made, and the dict it returns
_extract_profile_data(profile, results, respS, respK, respP, respG) ==
    LET li_result == results.linkedin
        company_result == results.company
        news_result == results.news
        social_result == results.social
        hs == Direct(profile, results)
        en == _enrich_with_llm(hs[1], hs[2], company_result, respS, respK)
        llm_enrichment == en[2]
        summary == MergeSummary(profile, hs[2], en[1], llm_enrichment)
        raised ==
            IF MergeRaises(hs[1], hs[2], en[1]) THEN "AttributeError"
            ELSE IF ExperiencesRaises(en[1]) THEN "TypeError"
            ELSE IF ContactRaises(li_result, company_result, social_result)
            THEN "ValidationError"
            ELSE "none"
        enrichCalls ==
            (IF StructuringInvoked(hs[1], hs[2]) THEN <<"llm.clean_and_structure">> ELSE <<>>)
            \o (IF KnowledgeInvoked(hs[1], hs[2])
                THEN <<"llm.enrich_from_knowledge">> ELSE <<>>)
        postCalls ==
            IF SummarizeInvoked(li_result) THEN <<"llm.summarize_posts">> ELSE <<>>
    IN [raised |-> raised,
        structured |-> en[1],
        calls |-> IF raised \in {"AttributeError", "TypeError"} THEN enrichCalls
                  ELSE IF raised = "ValidationError" THEN enrichCalls \o postCalls
                  ELSE enrichCalls \o postCalls \o <<"llm.global_synthesis">>,
        profile_data |->
            IF raised # "none" THEN NotYet
            ELSE [sources_used |-> _identify_sources(results),
                  headline |-> MergeHeadline(profile, hs[1], en[1], llm_enrichment),
                  summary |-> summary,
                  current_role |-> _extract_current_role(company_result, llm_enrichment),
                  experiences |-> _extract_experiences(profile, company_result, en[1],
                                                       llm_enrichment),
                  education |-> _extract_education(en[1], llm_enrichment),
                  skills |-> _extract_skills(en[1], llm_enrichment),
                  publications |-> _extract_publications(news_result),
                  speaking_engagements |-> _extract_speaking(company_result),
                  linkedin_analysis |-> _analyze_linkedin_posts(li_result, respP),
                  contact_info |-> _extract_contact_info(li_result, company_result,
                                                         social_result),
                  synthesis |-> _generate_synthesis(summary, respG),
                  llm_enrichment |-> llm_enrichment]]

\* create_profile: profile_data = await self._extract_profile_data(data, scraping_results)
ExtractProfileData ==
    /\ pc = "extract"
    /\ \E respS \in Replay("answers", "structure",
                           StructureAnswers(data, scraping_results)),
          respK \in Replay("answers", "knowledge",
                           KnowledgeAnswers(data, scraping_results)),
          respP \in Replay("answers", "posts", SummarizeAnswers(scraping_results)),
          respG \in Replay("answers", "synthesis", SynthesisResponses) :
          \E out \in {_extract_profile_data(data, scraping_results,
                                            respS, respK, respP, respG)} :
             /\ structured' = out.structured
             /\ profile_data' = out.profile_data
             /\ calls' = calls \o out.calls
             /\ pc' = IF out.raised = "none" THEN "score" ELSE "raised"
             /\ error' = IF out.raised = "none" THEN error ELSE out.raised
             /\ answers' = [answers EXCEPT !.structure = respS, !.knowledge = respK,
                                           !.posts = respP, !.synthesis = respG]
    /\ UNCHANGED <<body, data, scraping_results, score_args, scoring_result,
                   reliability, response, first, last_debug, writers>>

\* the keyword arguments _calculate_reliability gives to calculate_score
ScoreArgs(pd) ==
    [sources_used |-> pd.sources_used, headline |-> pd.headline, summary |-> pd.summary,
     experiences |-> pd.experiences, publications |-> pd.publications,
     posts |-> pd.linkedin_analysis.v.posts, education |-> pd.education,
     skills |-> pd.skills,
     social_profiles |-> Dict([twitter |-> pd.contact_info.v.twitter,
                               github |-> pd.contact_info.v.github])]

\* llm_enrichment.get("_source") == "llm_knowledge_base"
FromKnowledge(llm_enrichment) ==
    GetN(llm_enrichment, "_source") = Tok("llm_knowledge_base")
\* faulty variant of AdjustScore: the penalty added instead of subtracted
AdjustScore_SignSlip(score, llm_enrichment) ==
    IF FromKnowledge(llm_enrichment) /\ GetN(llm_enrichment, "confidence") = Tok("low")
    THEN Max(20, score + 10)
    ELSE score
\* faulty variant of AdjustScore: the floor of 20 forgotten
AdjustScore_NoFloor(score, llm_enrichment) ==
    IF FromKnowledge(llm_enrichment) /\ GetN(llm_enrichment, "confidence") = Tok("low")
    THEN score - 10
    ELSE score
\* lines 473-482: score = max(20, score - 10) for a low-confidence knowledge fallback
AdjustScore(score, llm_enrichment) ==
    IF FromKnowledge(llm_enrichment) /\ GetN(llm_enrichment, "confidence") = Tok("low")
    THEN Max(20, score - 10)
    ELSE score
\* faulty variant of AdjustFactors: the factors appended to the list the earlier
\* request left, as with a list shared between the calls
AdjustFactors_Kept(factors, llm_enrichment) ==
    (IF first # NotYet /\ first.reliability # NotYet
     THEN first.reliability.v.factors.v ELSE <<>>)
    \o (IF FromKnowledge(llm_enrichment)
        THEN Append(factors, Factor("llm_knowledge_base", 1)) ELSE factors)
\* scoring_result["factors"].append(...) when the knowledge fallback was used
AdjustFactors(factors, llm_enrichment) ==
    IF FromKnowledge(llm_enrichment)
    THEN Append(factors, Factor("llm_knowledge_base", 1)) ELSE factors

\* f"Score de fiabilité: {score}/100. {get_reliability_level(score)}"
BaseJustification(score) ==
    Str(<<"Score de fiabilite: ", ToString(score), "/100. ", get_reliability_level(score)>>)

\* llm_justif.get("justification") or synthesis.get("reliability_justification") or base
FinalJustification(llm_justif, synthesis, score) ==
    Or(Or(GetN(llm_justif, "justification"), GetN(synthesis, "reliability_justification")),
       BaseJustification(score))
JustificationRaises(llm_justif, synthesis) ==
    ~Truthy(GetN(llm_justif, "justification")) /\ ~IsDict(synthesis)

\* ProfileOrchestrator._calculate_reliability: the exception it raises ("none" when
\* it returns), the LLM calls it made, the scorer's result and the ReliabilityScore
_calculate_reliability(pd, respJ) ==
    LET args == ScoreArgs(pd)
        result == calculate_score(args)
        score == AdjustScore(result.score, pd.llm_enrichment)
        factors == List(AdjustFactors(result.factors, pd.llm_enrichment))
        llm_justif == justify_reliability(respJ)
        final == FinalJustification(llm_justif, pd.synthesis, score)
        raised ==
            IF CalculateScoreRaises(args) THEN "TypeError"
            ELSE IF JustificationRaises(llm_justif, pd.synthesis) THEN "AttributeError"
            ELSE IF ~ReliabilityScoreValid(score, final, factors) THEN "ValidationError"
            ELSE "none"
    IN [raised |-> raised,
        args |-> args,
        calls |-> IF raised = "TypeError" THEN <<>> ELSE <<"llm.justify_reliability">>,
        scoring_result |-> IF raised = "TypeError" THEN NotYet ELSE result,
        reliability |-> IF raised = "none" THEN ReliabilityScore(score, final, factors)
                        ELSE NotYet]

\* create_profile: reliability = self._calculate_reliability(profile_data)
CalculateReliability ==
    /\ pc = "score"
    /\ \E respJ \in Replay("answers", "justify", JustifyResponses) :
          \E out \in {_calculate_reliability(profile_data, respJ)} :
             /\ score_args' = out.args
             /\ scoring_result' = out.scoring_result
             /\ reliability' = out.reliability
             /\ calls' = calls \o out.calls
             /\ pc' = IF out.raised = "none" THEN "assemble" ELSE "raised"
             /\ error' = IF out.raised = "none" THEN error ELSE out.raised
             /\ answers' = [answers EXCEPT !.justify = respJ]
    /\ UNCHANGED <<body, data, scraping_results, structured, profile_data, response,
                   first, last_debug, writers>>

\* the fields _assemble_profile gives to EnrichedProfile
ProfileFields(d, pd, rel, reputation) ==
    [first_name |-> d.v.first_name, last_name |-> d.v.last_name, company |-> d.v.company,
     headline |-> pd.headline, current_role |-> pd.current_role, summary |-> pd.summary,
     experiences |-> pd.experiences, linkedin_analysis |-> pd.linkedin_analysis,
     skills |-> pd.skills, education |-> pd.education, publications |-> pd.publications,
     speaking_engagements |-> pd.speaking_engagements, contact_info |-> pd.contact_info,
     reputation |-> reputation, reliability |-> rel, sources_used |-> pd.sources_used]

\* ProfileOrchestrator._assemble_profile: the exception it raises ("none" when it
\* returns) and the EnrichedProfile
_assemble_profile(d, pd, rel) ==
    LET synthesis == pd.synthesis
        summary == Get(synthesis, "synthesis", Tok("Profil professionnel"))
        strengths == Get(synthesis, "strengths", EmptyList)
        weak_signals == Get(synthesis, "weak_signals", EmptyList)
        fields == ProfileFields(d, pd, rel,
                                ReputationAnalysis(summary, strengths, weak_signals))
        raised ==
            IF ~IsDict(synthesis) THEN "AttributeError"
            ELSE IF ~ReputationAnalysisValid(summary, strengths, weak_signals)
                    \/ ~EnrichedProfileValid(fields)
            THEN "ValidationError"
            ELSE "none"
    IN [raised |-> raised,
        profile |-> IF raised = "none" THEN EnrichedProfile(fields) ELSE NotYet]

\* create_profile: enriched_profile = self._assemble_profile(...) and the return
AssembleProfile ==
    /\ pc = "assemble"
    /\ \E out \in {_assemble_profile(data, profile_data, reliability)} :
          /\ pc' = IF out.raised = "none" THEN "done" ELSE "raised"
          /\ error' = IF out.raised = "none" THEN error ELSE out.raised
          /\ response' = IF out.raised = "none"
                         THEN [debug |-> [sources_used |-> profile_data.sources_used],
                               profile |-> out.profile]
                         ELSE response
    /\ UNCHANGED <<body, data, scraping_results, structured, profile_data,
                   score_args, scoring_result, reliability, calls, answers, first,
                   last_debug, writers>>

Next ==
    \/ Validate
    \/ CallLinkedIn
    \/ ScrapeLinkedIn
    \/ CallCompany
    \/ ScrapeCompany
    \/ CallNews
    \/ ScrapeNews
    \/ CallSocial
    \/ ScrapeSocial
    \/ ExtractProfileData
    \/ CalculateReliability
    \/ AssembleProfile

Spec == Init /\ [][Next]_vars

(***************************************************************************)
(* Scheduling.  The statements of create_profile are run by the            *)
(* interpreter one after the other, so each of its own steps is taken once *)
(* it is enabled.  A collector returns when its fetches return: no         *)
(* scrape_url call of src/src/services/sources is given a timeout, so      *)
(* nothing in the code makes a collector return.                           *)
(***************************************************************************)
LiveSpec ==
    /\ Spec
    /\ WF_vars(Validate)
    /\ WF_vars(CallLinkedIn) /\ WF_vars(CallCompany)
    /\ WF_vars(CallNews) /\ WF_vars(CallSocial)
    /\ WF_vars(ExtractProfileData)
    /\ WF_vars(CalculateReliability)
    /\ WF_vars(AssembleProfile)

(***************************************************************************)
(* The orchestrator keeps its collectors and its LLM client from one       *)
(* request to the next.  After a request has ended it is handed the same   *)
(* identity again, and the outside world answers as it did the first time. *)
(***************************************************************************)
\* what a request leaves behind when create_profile is over
Outcome ==
    [pc |-> pc, error |-> error, scraping_results |-> scraping_results,
     answers |-> answers, structured |-> structured, profile_data |-> profile_data,
     score_args |-> score_args, scoring_result |-> scoring_result,
     reliability |-> reliability, response |-> response, calls |-> calls]

\* the requests that are handed in again: those whose social searches found
\* nothing, or a profile on each of the three networks
Repeated == Cardinality(DOMAIN scraping_results.social.v) \in {0, 3}

\* create_profile(data) is called again on the same ProfileOrchestrator: its
\* locals are new, self.linkedin ... self.llm are the objects of __init__
Rerun ==
    /\ first = NotYet
    /\ pc \in {"done", "raised"}
    /\ Repeated
    /\ first' = Outcome
    /\ pc' = "scrape_linkedin"
    /\ scraping_results' = [linkedin |-> NotYet, company |-> NotYet,
                            news |-> NotYet, social |-> NotYet]
    /\ structured' = NotYet
    /\ profile_data' = NotYet
    /\ score_args' = NotYet
    /\ scoring_result' = NotYet
    /\ reliability' = NotYet
    /\ response' = NotYet
    /\ calls' = <<>>
    /\ error' = "none"
    /\ answers' = NoAnswers
    /\ UNCHANGED <<body, data, last_debug, writers>>

RerunNext ==
    \/ Next
    \/ Rerun

RerunSpec == Init /\ [][RerunNext]_vars

(***************************************************************************)
(* ReliabilityScorer.calculate_score is a static method: besides the       *)
(* requests above, a caller may hand it any arguments of its signature.    *)
(***************************************************************************)
\* a list of n entries
Entries(n) == List([i \in 1..n |-> Tok("entry")])
\* social_profiles: Dict[str, Any] = None
DirectSocial ==
    {None, EmptyDict,
     Dict([twitter |-> Tok("x.com/ada"), github |-> None]),
     Dict([twitter |-> Tok("x.com/ada"), github |-> Tok("github.com/ada"),
           medium |-> Tok("medium.com/@ada")])}
\* arguments of a direct call: sources_used, the two texts, the lists of
\* structured items (or None), the lists of found items, the social profiles
DirectArgs ==
    {[sources_used |-> Entries(s), headline |-> h, summary |-> t,
      experiences |-> l, publications |-> m, posts |-> m, education |-> l,
      skills |-> l, social_profiles |-> sp] :
        s \in 0..MaxItems,
        h \in {None, EmptyStr, Tok("CTO")},
        t \in {None, EmptyStr, Str(Rep("s", 100)), Str(Rep("s", 101))},
        l \in {None} \cup {Entries(n) : n \in 0..MaxItems},
        m \in {Entries(n) : n \in 0..MaxItems},
        sp \in DirectSocial}

DirectInit ==
    /\ pc = "direct"
    /\ score_args \in DirectArgs
    /\ body = NotYet
    /\ data = NotYet
    /\ scraping_results = [linkedin |-> NotYet, company |-> NotYet,
                           news |-> NotYet, social |-> NotYet]
    /\ structured = NotYet
    /\ profile_data = NotYet
    /\ scoring_result = NotYet
    /\ reliability = NotYet
    /\ response = NotYet
    /\ calls = <<>>
    /\ error = "none"
    /\ answers = NoAnswers
    /\ first = NotYet
    /\ last_debug = EmptyDict
    /\ writers = {}

\* ReliabilityScorer.calculate_score(**score_args)
CallScorer ==
    /\ pc = "direct"
    /\ IF CalculateScoreRaises(score_args)
       THEN pc' = "raised" /\ error' = "TypeError" /\ scoring_result' = scoring_result
       ELSE /\ pc' = "direct_done" /\ error' = error
            /\ \E out \in {calculate_score(score_args)} : scoring_result' = out
    /\ UNCHANGED <<body, data, scraping_results, structured, profile_data, score_args,
                   reliability, response, calls, answers, first, last_debug, writers>>

DirectNext ==
    \/ Next
    \/ CallScorer

\* the requests and the direct calls of the scorer
DirectStart ==
    \/ Init
    \/ DirectInit
DirectSpec == DirectStart /\ [][DirectNext]_vars

(***************************************************************************)
(* src/src/services/sources: the steps of the four collectors.  A Firecrawl *)
(* call raises, returns nothing (None), or returns a document, kept as     *)
(* what the step's parser finds in it.  A step gives whether an exception  *)
(* left it and the value it returned.                                      *)
(***************************************************************************)
FetchRaises == [t |-> "raises"]
Page(found) == [t |-> "page", v |-> found]
Ok(v) == [raised |-> FALSE, v |-> v]
Raised == [raised |-> TRUE, v |-> None]
\* faulty variant of Try: the exception is let through
Try_Reraise(step, fallback) == step
\* try: <step> / except Exception: return <fallback>
Try(step, fallback) == IF step.raised THEN Ok(fallback) ELSE step

AlphaNum ==
    {LowerCase[i] : i \in 1..26} \cup {"0", "1", "2", "3", "4", "5", "6", "7", "8", "9"}
\* re.sub(r"[^a-z0-9]+", "-", s)
RECURSIVE Dashed(_, _)
Dashed(s, inRun) ==
    IF s = <<>> THEN <<>>
    ELSE IF Head(s) \in AlphaNum THEN <<Head(s)>> \o Dashed(Tail(s), FALSE)
    ELSE (IF inRun THEN <<>> ELSE <<"-">>) \o Dashed(Tail(s), TRUE)
\* s.strip("-")
RECURSIVE StripDashes(_)
StripDashes(s) ==
    IF s # <<>> /\ Head(s) = "-" THEN StripDashes(Tail(s))
    ELSE IF s # <<>> /\ s[Len(s)] = "-" THEN StripDashes(SubSeq(s, 1, Len(s) - 1))
    ELSE s
\* LinkedInScraper._normalize, for names without accents
_normalize(s) == StripDashes(Dashed(Strip(Lower(s)), FALSE))
\* LinkedInScraper._build_linkedin_candidates (its candidates never coincide)
_build_linkedin_candidates(profile) ==
    LET first_name == _normalize(profile.v.first_name.v)
        last_name == _normalize(profile.v.last_name.v)
        company == _normalize(profile.v.company.v)
        base == <<"https://www.linkedin.com/in", "/">>
    IN <<Str(base \o first_name \o <<"-">> \o last_name \o <<"/">>),
         Str(base \o first_name \o <<".">> \o last_name \o <<"/">>),
         Str(base \o first_name \o last_name \o <<"/">>)>>
       \o (IF company # <<>>
           THEN <<Str(base \o first_name \o <<"-">> \o last_name \o <<"-">> \o company \o <<"/">>),
                  Str(base \o first_name \o <<".">> \o last_name \o <<".">> \o company \o <<"/">>)>>
           ELSE <<>>)
\* LinkedInScraper._validate_profile_url: the page looks like a profile
_validate_profile_url(fetch) ==
    Try(IF fetch = FetchRaises THEN Raised
        ELSE Ok(fetch # None /\ fetch.v = TRUE),
        FALSE)
\* LinkedInScraper._find_linkedin_profile: `return url` (line 115) stands in the
\* body of the loop over the candidates, after the `if` that tests the
\* validation: the first candidate is returned in the first iteration, and the
\* searches of lines 117-168 are never reached
_find_linkedin_profile(profile, validate) ==
    LET candidates == _build_linkedin_candidates(profile)
        validated == _validate_profile_url(validate)
    IN IF validated.raised THEN Raised ELSE Ok(candidates[1])
\* LinkedInScraper._scrape_profile_page with _parse_profile_markdown
_scrape_profile_page(fetch) ==
    Try(IF fetch = FetchRaises THEN Raised
        ELSE IF fetch = None THEN Ok(EmptyDict)
        ELSE Ok(Dict((IF Truthy(fetch.v) THEN "about" :> fetch.v ELSE EmptyFn)
                     @@ [raw_content |-> Tok("md"), metadata |-> EmptyDict,
                         raw_markdown |-> Tok("md")])),
        EmptyDict)
\* LinkedInScraper._scrape_recent_posts with _parse_posts_from_markdown
_scrape_recent_posts(fetch) ==
    Try(IF fetch = FetchRaises THEN Raised
        ELSE IF fetch = None THEN Ok(<<>>)
        ELSE Ok(fetch.v),
        <<>>)
\* {"error": str(e), ...}: the payloads of the except branches of scrape
ErrorPayload(empty) == Dict(("error" :> Tok("exception")) @@ empty.v)
\* LinkedInScraper.scrape
LinkedInScraper_scrape(profile, validate, page, activity) ==
    LET linkedin_url == _find_linkedin_profile(profile, validate)
        profile_data_ == _scrape_profile_page(page)
        posts == _scrape_recent_posts(activity)
    IN Try(IF linkedin_url.raised THEN Raised
           ELSE IF ~Truthy(linkedin_url.v) THEN Ok(LinkedInEmpty)
           ELSE IF profile_data_.raised \/ posts.raised THEN Raised
           ELSE Ok(LinkedInScrape(linkedin_url.v, profile_data_.v, posts.v)),
           ErrorPayload(LinkedInEmpty))

NotSeparator(c) == c \notin {" ", "-"}
\* CompanyScraper._find_company_website: the best scored domain of the search
\* page, else a domain built from the company name
_find_company_website(company_name, search) ==
    Try(IF search = FetchRaises THEN Raised
        ELSE IF search # None /\ Truthy(search.v)
        THEN Ok(Str(<<"https://">> \o search.v.v))
        ELSE IF Truthy(company_name)
        THEN Ok(Str(<<"https://">> \o SelectSeq(Lower(company_name.v), NotSeparator)
                    \o <<".com">>))
        ELSE Ok(None),
        None)
\* CompanyScraper._discover_related_pages: the sampled home pages link no page
_discover_related_pages(fetch) ==
    Try(IF fetch = FetchRaises THEN Raised ELSE Ok(EmptyList), EmptyList)
\* CompanyScraper._scrape_company_info
_scrape_company_info(fetch) ==
    Try(IF fetch = FetchRaises THEN Raised
        ELSE IF fetch = None THEN Ok(CompanyInfo(<<>>, <<>>))
        ELSE Ok(CompanyInfo(fetch.v, <<>>)),
        EmptyDict)
\* CompanyScraper._find_person_on_site
_find_person_on_site(search) ==
    Try(IF search = FetchRaises THEN Raised
        ELSE IF search = None THEN Ok(<<>>)
        ELSE Ok(search.v),
        <<>>)
\* CompanyScraper._extract_person_profile: a fetch that raises is skipped
_extract_person_profile(fetch) ==
    Try(IF fetch = FetchRaises THEN Try(Raised, NoPerson)
        ELSE IF fetch = None THEN Ok(NoPerson)
        ELSE Ok(fetch.v),
        NoPerson)
\* CompanyScraper.scrape
CompanyScraper_scrape(profile, search, links, home, mentions, person) ==
    LET company_url == _find_company_website(profile.v.company, search)
        pages == _discover_related_pages(links)
        company_info == _scrape_company_info(home)
        person_mentions == _find_person_on_site(mentions)
        person_profile == _extract_person_profile(person)
    IN Try(IF company_url.raised THEN Raised
           ELSE IF ~Truthy(company_url.v) THEN Ok(CompanyEmpty)
           ELSE IF pages.raised \/ company_info.raised \/ person_mentions.raised
                   \/ person_profile.raised
           THEN Raised
           ELSE Ok(CompanyScrape(company_url.v, company_info.v, person_mentions.v,
                                 person_profile.v)),
           ErrorPayload(EmptyDict))

\* NewsScraper._search_news_articles: result.get fails on None
_search_news_articles(fetch) ==
    Try(IF fetch \in {FetchRaises, None} THEN Raised ELSE Ok(Take(fetch.v, 5)), <<>>)
pro_media == <<"lesechos.fr", "challenges.fr", "usinenouvelle.com">>
\* NewsScraper._search_professional_media: one search for each medium, a failed
\* one skipped; a page is kept as whether it holds the last name
_search_professional_media(fetches) ==
    LET Searched(i) ==
            Try(IF fetches[i] \in {FetchRaises, None} THEN Raised
                ELSE Ok(IF fetches[i].v = TRUE
                        THEN <<Dict([source |-> Tok(pro_media[i]), found |-> Bool(TRUE),
                                     snippet |-> Tok("s")])>>
                        ELSE <<>>),
                <<>>)
    IN IF \E i \in 1..3 : Searched(i).raised THEN Raised
       ELSE Ok(Searched(1).v \o Searched(2).v \o Searched(3).v)
\* NewsScraper.scrape
NewsScraper_scrape(search, media) ==
    LET articles == _search_news_articles(search)
        pro_mentions == _search_professional_media(media)
    IN Try(IF articles.raised \/ pro_mentions.raised THEN Raised
           ELSE Ok(NewsScrape(articles.v, pro_mentions.v)),
           ErrorPayload(EmptyDict))

\* SocialScraper._find_twitter, _find_medium, _find_github: the first URL of the
\* network in the search page
_find_social(search) ==
    Try(IF search = FetchRaises THEN Raised
        ELSE IF search = None \/ ~Truthy(search.v) THEN Ok(None)
        ELSE Ok(Dict([url |-> search.v, found |-> Bool(TRUE)])),
        None)
\* SocialScraper.scrape
SocialScraper_scrape(tw, md, gh) ==
    LET twitter == _find_social(tw)
        medium == _find_social(md)
        github == _find_social(gh)
    IN Try(IF twitter.raised \/ medium.raised \/ github.raised THEN Raised
           ELSE Ok(SocialScrape(twitter.v, medium.v, github.v)),
           EmptyDict)

(***************************************************************************)
(* create_profile with the collectors of src/src/services/sources, up to   *)
(* the four payloads.                                                      *)
(***************************************************************************)
\* what a call of Firecrawl can do
Fetches(found) == {FetchRaises, None, Page(found)}
Failing(found) == {FetchRaises, Page(found)}

\* _scrape_all_sources: the await of a scrape ends; an exception that leaves
\* the scrape leaves create_profile
Collect(src, next, out, fetched) ==
    /\ IF out.raised
       THEN /\ pc' = "raised" /\ error' = "Exception"
            /\ scraping_results' = scraping_results
       ELSE /\ pc' = next /\ error' = error
            /\ scraping_results' = [scraping_results EXCEPT ![src] = out.v]
    /\ answers' = [answers EXCEPT !.fetches[src] = fetched]
    /\ UNCHANGED <<body, data, structured, profile_data, score_args, scoring_result,
                   reliability, response, calls, first>>

CollectLinkedIn ==
    /\ pc = "await_linkedin"
    /\ \E validate \in Failing(TRUE), page \in Fetches(AboutLong),
          activity \in Fetches(PostList(MaxItems)) :
          \E out \in {LinkedInScraper_scrape(data, validate, page, activity)} :
             /\ Collect("linkedin", "scrape_company", out, <<validate, page, activity>>)
             /\ last_debug' = DebugValidated(last_debug, _build_linkedin_candidates(data)[1])
    /\ UNCHANGED writers
\* the fetches that follow the search of the site are made when it gave a URL
CollectCompany ==
    /\ pc = "await_company"
    /\ \E search \in Fetches(Tok("acme.io")) :
          \E site \in {_find_company_website(data.v.company, search).v} :
             \E links \in IF Truthy(site) THEN Failing(<<>>) ELSE {NotYet},
                home \in IF Truthy(site) THEN Fetches(OtherPage) ELSE {NotYet},
                mentions \in IF Truthy(site) THEN Failing(<<>>) ELSE {NotYet},
                person \in IF Truthy(site) THEN Failing(PersonWithBio) ELSE {NotYet} :
                \E out \in {CompanyScraper_scrape(data, search, links, home, mentions,
                                                  person)} :
                   Collect("company", "scrape_news", out,
                           <<search, links, home, mentions, person>>)
    /\ UNCHANGED <<last_debug, writers>>
CollectNews ==
    /\ pc = "await_news"
    /\ \E search \in Fetches(<<Article(1)>>),
          media \in {<<FetchRaises, FetchRaises, FetchRaises>>,
                     <<Page(TRUE), None, Page(FALSE)>>,
                     <<Page(TRUE), Page(TRUE), Page(TRUE)>>} :
          \E out \in {NewsScraper_scrape(search, media)} :
             Collect("news", "scrape_social", out, <<search, media>>)
    /\ UNCHANGED <<last_debug, writers>>
CollectSocial ==
    /\ pc = "await_social"
    /\ \E tw \in Fetches(Tok("x.com/ada")), md \in Failing(None),
          gh \in Failing(Tok("github.com/ada")) :
          \E out \in {SocialScraper_scrape(tw, md, gh)} :
             Collect("social", "extract", out, <<tw, md, gh>>)
    /\ UNCHANGED <<last_debug, writers>>

CollectorNext ==
    \/ Validate
    \/ CallLinkedIn
    \/ CollectLinkedIn
    \/ CallCompany
    \/ CollectCompany
    \/ CallNews
    \/ CollectNews
    \/ CallSocial
    \/ CollectSocial

CollectorSpec == Init /\ [][CollectorNext]_vars

(***************************************************************************)
(* src/main.py: POST /profiling/.  The handler awaits the four scrapes      *)
(* itself and builds the EnrichedProfile inline; its tests for the sources *)
(* (lines 47-55) and its summary heuristics (lines 58-72) are those of     *)
(* _identify_sources and _extract_headline_summary.                        *)
(***************************************************************************)
\* profiling: the exception it raises ("none" when it returns) and, of the
\* profile it returns, the sources, the headline, the summary and the reliability
profiling(profile, results) ==
    LET sources_used == _identify_sources(results)
        hs == _extract_headline_summary(profile, results.company, results.linkedin)
        headline == None
        summary == hs[2]
        score == IF Truthy(sources_used) THEN 70 ELSE 40
        justification == Tok("Profil base sur sources multiples")
    IN [raised |-> IF ContactRaises(results.linkedin, results.company, results.social)
                      \/ ~ReliabilityScoreValid(score, justification, sources_used)
                   THEN "ValidationError" ELSE "none",
        sources_used |-> sources_used,
        headline |-> headline,
        summary |-> summary,
        reliability |-> ReliabilityScore(score, justification, sources_used)]

(***************************************************************************)
(* Properties of create_profile.                                           *)
(***************************************************************************)
\* what the request has reached
Scored == scoring_result # NotYet
Rated == reliability # NotYet
Extracted == profile_data # NotYet
Returned == pc = "done"
\* the score _calculate_reliability put in the ReliabilityScore
FinalScore == reliability.v.score
\* the knowledge fallback answered with confidence "low"
LowConfidence ==
    /\ \E i \in 1..Len(calls) : calls[i] = "llm.enrich_from_knowledge"
    /\ "confidence" \in DOMAIN profile_data.llm_enrichment.v
    /\ profile_data.llm_enrichment.v["confidence"] = Tok("low")

\* C1: for every combination of collector payloads and LLM answers, the score
\* that _calculate_reliability derives from the scorer's result (after the
\* low-confidence adjustment) lies in 0..100, and so does the score inside the
\* profile that create_profile returns.
C1_ScoreInRange ==
    /\ Scored => AdjustScore(scoring_result.score, profile_data.llm_enrichment) \in 0..100
    /\ Rated => FinalScore \in 0..100
    /\ Returned => response.profile.v.reliability.v.score \in 0..100
\* a profile was returned whose score is the adjusted one, ten below the scorer's
C1_Witness ==
    /\ Returned /\ LowConfidence
    /\ response.profile.v.reliability.v.score = scoring_result.score - 10

\* the canonical markers of the four payloads
HasMarker ==
    [linkedin |-> /\ "url" \in DOMAIN scraping_results.linkedin.v
                  /\ scraping_results.linkedin.v["url"] \notin {None, EmptyStr},
     company |-> /\ "company_website" \in DOMAIN scraping_results.company.v
                 /\ scraping_results.company.v["company_website"] \notin {None, EmptyStr},
     news |-> /\ "total_mentions" \in DOMAIN scraping_results.news.v
              /\ scraping_results.news.v["total_mentions"].v >= 1,
     social |-> \E k \in DOMAIN scraping_results.social.v :
                   scraping_results.social.v[k] # None]
\* the fixed priority of the sources
Rank == ("linkedin" :> 1) @@ ("company" :> 2) @@ ("news" :> 3) @@ ("social" :> 4)
\* su holds each source whose marker is present, once, in priority order
OrderedSources(su) ==
    /\ IsList(su)
    /\ \A i \in 1..Len(su.v) : IsStr(su.v[i]) /\ su.v[i].v[1] \in DOMAIN Rank
    /\ \A src \in DOMAIN Rank : HasMarker[src] <=> \E i \in 1..Len(su.v) : su.v[i] = Tok(src)
    /\ \A i, j \in 1..Len(su.v) : i < j => Rank[su.v[i].v[1]] < Rank[su.v[j].v[1]]
\* Scenario C: network, company and social have their markers, news has not
ScenarioC ==
    HasMarker.linkedin /\ HasMarker.company /\ ~HasMarker.news /\ HasMarker.social

\* C2: sources_used is the duplicate-free subsequence of linkedin, company, news,
\* social that holds a source exactly when its marker is present in the payloads,
\* in that order; in Scenario C it has 3 entries and the source points are 30.
C2_SourcesUsed ==
    /\ Extracted => OrderedSources(profile_data.sources_used)
    /\ Returned => /\ response.debug.sources_used = profile_data.sources_used
                   /\ response.profile.v.sources_used = profile_data.sources_used
    /\ (Extracted /\ ScenarioC) => PyLen(profile_data.sources_used) = 3
    /\ (Scored /\ ScenarioC) => scoring_result.breakdown["sources"] = 30
\* Scenario C went through to a returned profile
C2_Witness ==
    /\ Returned /\ ScenarioC
    /\ response.debug.sources_used = List(<<SrcLinkedin, SrcCompany, SrcSocial>>)
    /\ scoring_result.breakdown["sources"] = 30

\* no step of a ladder yields a value, direct being what the payloads gave
NoStep(direct, key) ==
    /\ ~Truthy(direct)
    /\ ~Truthy(GetN(structured, key))
    /\ ~Truthy(GetN(profile_data.llm_enrichment, key))
NonEmptyStr(x) == IsStr(x) /\ Len(x.v) > 0

\* C3: whenever the merge step of _extract_profile_data has completed, whatever
\* the payloads and the LLM answers were (empty and failed ones included),
\* headline and summary are non-empty strings, and they are the templates built
\* from the identity when no step of their ladder yields a value.
C3_NeverEmptyAfterMerge ==
    Extracted =>
        LET direct == Direct(data, scraping_results)
        IN /\ NonEmptyStr(profile_data.headline)
           /\ NonEmptyStr(profile_data.summary)
           /\ NoStep(direct[1], "headline") =>
                 profile_data.headline = Str(HeadlinePrefix \o data.v.company.v)
           /\ NoStep(direct[2], "summary") =>
                 profile_data.summary
                   = Str(data.v.first_name.v \o <<" ">> \o data.v.last_name.v
                         \o SummaryMiddle \o data.v.company.v \o <<".">>)
\* both templates were used after the knowledge fallback gave nothing
C3_Witness ==
    /\ Extracted
    /\ \E i \in 1..Len(calls) : calls[i] = "llm.enrich_from_knowledge"
    /\ NoStep(None, "headline") /\ NoStep(None, "summary")
    /\ profile_data.headline = HeadlineTemplate(data)
    /\ profile_data.summary = SummaryTemplate(data)

\* the identity of the request has its three fields, each a non-empty string
ValidIdentity ==
    /\ IsDict(body)
    /\ \A k \in RequiredFields : k \in DOMAIN body.v /\ NonEmptyStr(body.v[k])

\* C4: for a valid identity create_profile never raises, whatever the payloads
\* and the LLM answers are (a JSON list instead of an object, a null list
\* field, a justification that is not a string): no exception leaves it.
C4_NeverRaises ==
    ValidIdentity => pc # "raised" /\ error = "none"

\* C5: an identity with a missing or empty first name, last name or company is
\* refused with a validation failure before any collector is called.
C5_EmptyIdentityRejected ==
    ~ValidIdentity => /\ calls = <<>>
                      /\ pc \in {"request", "rejected"}
                      /\ pc = "rejected" => error = "ValidationError"

\* the LLM gave global_synthesis an object whose strengths or weak_signals is null
NullSynthesisList ==
    /\ Extracted /\ IsDict(profile_data.synthesis)
    /\ \E k \in {"strengths", "weak_signals"} :
          /\ k \in DOMAIN profile_data.synthesis.v
          /\ profile_data.synthesis.v[k] = None

\* C6: a null list delivered by the LLM is normalized to an empty list and never
\* turned into an error: once such a profile is rated, _assemble_profile returns
\* it with reputation.strengths and reputation.weak_signals as lists.
C6_NullListsNormalized ==
    (ValidIdentity /\ NullSynthesisList) =>
        /\ ~(pc = "raised" /\ Rated)
        /\ Returned => /\ IsList(response.profile.v.reputation.v.strengths)
                       /\ IsList(response.profile.v.reputation.v.weak_signals)

\* the four collectors returned their empty payloads
AllEmpty ==
    scraping_results = [linkedin |-> LinkedInEmpty, company |-> CompanyEmpty,
                        news |-> NewsScrape(<<>>, <<>>), social |-> EmptyDict]

\* C7 as stated: with four empty payloads, whatever the LLM answers, headline
\* and summary are non-empty and the final score is at least 0 and below 40.
C7_EmptyBelow40 ==
    /\ (AllEmpty /\ Extracted) =>
          NonEmptyStr(profile_data.headline) /\ NonEmptyStr(profile_data.summary)
    /\ (AllEmpty /\ Rated) => 0 <= FinalScore /\ FinalScore < 40
\* C7 amended: with four empty payloads, whatever the LLM answers, headline and
\* summary are non-empty and the final score is at least 0 and at most 40.
C7_EmptyAtMost40 ==
    /\ (AllEmpty /\ Extracted) =>
          NonEmptyStr(profile_data.headline) /\ NonEmptyStr(profile_data.summary)
    /\ (AllEmpty /\ Rated) => 0 <= FinalScore /\ FinalScore <= 40
\* four empty payloads and a rich, confident knowledge answer: a profile scored 40
C7_Witness ==
    /\ AllEmpty /\ Returned
    /\ \E i \in 1..Len(calls) : calls[i] = "llm.enrich_from_knowledge"
    /\ PyLen(profile_data.experiences) >= 3
    /\ response.profile.v.reliability.v.score = 40

\* C8: when the knowledge fallback was used and its confidence is "low" the final
\* score is max(20, p - 10), p being the score calculate_score returned; with
\* any other confidence, or without the knowledge fallback, it is p.
C8_LowConfidencePenalty ==
    Rated =>
        LET p == scoring_result.score
        IN IF LowConfidence
           THEN FinalScore = (IF p - 10 > 20 THEN p - 10 ELSE 20)
           ELSE FinalScore = p
\* the floor acted: a low-confidence profile whose scorer result was below 30
C8_Witness ==
    /\ Returned /\ LowConfidence
    /\ scoring_result.score < 30
    /\ response.profile.v.reliability.v.score = 20

\* the sum of the values of a breakdown
RECURSIVE SumSet(_, _)
SumSet(f, ks) ==
    IF ks = {} THEN 0
    ELSE LET k == CHOOSE x \in ks : TRUE IN f[k] + SumSet(f, ks \ {k})
SumValues(f) == SumSet(f, DOMAIN f)
\* the number of entries of a list argument of the scorer
Count(x) == IF IsList(x) THEN Len(x.v) ELSE 0
Least(a, b) == IF a <= b THEN a ELSE b
\* the points of the scoring table for the arguments a
TablePoints(a) ==
    [sources |-> Least(10 * Count(a.sources_used), 40),
     headline |-> IF NonEmptyStr(a.headline) THEN 8 ELSE 0,
     summary |-> IF IsStr(a.summary) /\ Len(a.summary.v) > 100 THEN 10
                 ELSE IF NonEmptyStr(a.summary) THEN 5 ELSE 0,
     experiences |-> Least(4 * Count(a.experiences), 12),
     publications |-> Least(2 * Count(a.publications), 8),
     posts |-> Least(2 * Count(a.posts), 8),
     education |-> Least(3 * Count(a.education), 6),
     skills |-> IF Count(a.skills) >= 3 THEN 4 ELSE 0,
     social |-> IF IsDict(a.social_profiles)
                THEN Least(2 * Cardinality({k \in DOMAIN a.social_profiles.v :
                                               a.social_profiles.v[k] # None}), 4)
                ELSE 0]
TableScore(a) ==
    LET t == TablePoints(a)
        sum == t.sources + t.headline + t.summary + t.experiences + t.publications
               + t.posts + t.education + t.skills + t.social
    IN IF sum < 0 THEN 0 ELSE IF sum > 100 THEN 100 ELSE sum
\* Scenario B: a company payload with a website, a biography and 2 experiences,
\* every other payload empty
ScenarioB ==
    /\ scraping_results.linkedin = LinkedInEmpty
    /\ scraping_results.news = NewsScrape(<<>>, <<>>)
    /\ scraping_results.social = EmptyDict
    /\ NonEmptyStr(GetN(scraping_results.company, "company_website"))
    /\ NonEmptyStr(GetN(GetN(scraping_results.company, "person_profile"), "bio"))
    /\ Count(GetN(GetN(scraping_results.company, "person_profile"), "experiences")) = 2

C10_SocialPoints ==
    Scored =>
        LET k == Cardinality({n \in DOMAIN scraping_results.social.v :
                                 scraping_results.social.v[n] # None})
            points == IF "social" \in DOMAIN scoring_result.breakdown
                      THEN scoring_result.breakdown["social"] ELSE 0
        IN points = Least(2 * k, 4)

\* Scenario A: the identity (Ada, Lovelace, Acme Corp), four empty payloads,
\* nothing from structuring, and the knowledge fallback's empty structure
ScenarioA ==
    /\ body = Body(Str(Ada), Str(Lovelace), Str(AcmeCorp))
    /\ AllEmpty /\ Extracted
    /\ structured = EmptyDict
    /\ profile_data.llm_enrichment = EmptyEnrichmentFallback

\* C11: in Scenario A sources_used is empty, headline is "Professionnel chez
\* Acme Corp", summary is "Ada Lovelace travaille chez Acme Corp.", the scorer
\* gives 8 for the headline and 5 for the summary and nothing else, and the
\* final score is 13: the confidence "none" brings no penalty.
C11_ScenarioA ==
    ScenarioA =>
        /\ profile_data.sources_used = EmptyList
        /\ profile_data.headline = Str(HeadlinePrefix \o AcmeCorp)
        /\ profile_data.summary
              = Str(Ada \o <<" ">> \o Lovelace \o SummaryMiddle \o AcmeCorp \o <<".">>)
        /\ PyLen(profile_data.summary) <= 100
        /\ Scored => /\ scoring_result.breakdown
                          = ("sources" :> 0) @@ ("headline" :> 8) @@ ("summary" :> 5)
                      /\ scoring_result.score = 13
        /\ Rated => FinalScore = 13
        /\ Returned => /\ response.debug.sources_used = EmptyList
                        /\ response.profile.v.reliability.v.score = 13
\* Scenario A went through to a returned profile scored 13
C11_Witness ==
    /\ ScenarioA /\ Returned
    /\ \E i \in 1..Len(calls) : calls[i] = "llm.enrich_from_knowledge"
    /\ response.profile.v.headline = HeadlineTemplate(data)
    /\ response.profile.v.reliability.v.score = 13

\* the request is the repetition of an earlier one
Repeating == first # NotYet
\* create_profile is over
Ended == pc \in {"done", "raised"}

Invoked(call) == \E i \in 1..Len(calls) : calls[i] = call
\* the place of a call among the calls of the request (0: not called)
Position(call) ==
    IF Invoked(call) THEN CHOOSE i \in 1..Len(calls) : calls[i] = call ELSE 0
\* the four payloads are in
Collected == \A src \in DOMAIN scraping_results : scraping_results[src] # NotYet

\* C13: clean_and_structure is invoked only when the direct extraction from the
\* payloads gave neither a headline nor a summary; it is not invoked when the
\* direct extraction gave a summary.
C13_StructuringOnlyWhenBothAbsent ==
    (Collected /\ Invoked("llm.clean_and_structure")) =>
        LET direct == Direct(data, scraping_results)
        IN ~Truthy(direct[1]) /\ ~Truthy(direct[2])

\* C14: enrich_from_knowledge is invoked only after clean_and_structure, and
\* only when what clean_and_structure returned has neither a headline nor a
\* summary.
C14_KnowledgeOnlyAfterEmptyStructuring ==
    Invoked("llm.enrich_from_knowledge") =>
        /\ Invoked("llm.clean_and_structure")
        /\ Position("llm.clean_and_structure") < Position("llm.enrich_from_knowledge")
        /\ IsDict(structured) => /\ ~Truthy(GetN(structured, "headline"))
                                  /\ ~Truthy(GetN(structured, "summary"))

\* C15: global_synthesis is not called before calculate_score has returned the
\* score of the request.
C15_SynthesisAfterScore ==
    Invoked("llm.global_synthesis") => Scored

\* the LLM gave no text to justify_reliability nor to global_synthesis
NarrativeUnavailable ==
    answers.justify = FailedResponse /\ answers.synthesis = FailedResponse

\* C16: when the LLM fails both justify_reliability and global_synthesis, the
\* justification of the ReliabilityScore is the scorer's band text for the
\* final score (85 and more, 70 and more, 50 and more, 30 and more, below 30),
\* alone or after the "Score de fiabilite: n/100." prefix of the orchestrator.
C16_BandTextFallback ==
    (Rated /\ NarrativeUnavailable) =>
        reliability.v.justification
            \in {BaseJustification(FinalScore), Str(<<get_reliability_level(FinalScore)>>)}

\* the scrape methods of the four collectors
Scrapes == {"linkedin.scrape", "company.scrape", "news.scrape", "social.scrape"}

\* C17: the four scrape calls are started before any of them has to finish:
\* once a collector has returned its payload, every collector has been called;
\* and the merge works on four payloads.
C17_CollectorsConcurrent ==
    /\ (\E src \in DOMAIN scraping_results : scraping_results[src] # NotYet)
          => \A call \in Scrapes : Invoked(call)
    /\ structured # NotYet => Collected

\* C18: a request whose first collector has been called ends, and a collector
\* that is awaited does not keep the other collectors from being called.
C18_FanInNeverBlocks ==
    /\ Invoked("linkedin.scrape") ~> Ended
    /\ Invoked("linkedin.scrape") ~> (\A call \in Scrapes : Invoked(call))

\* the enrichment operations of the LLM client
Enrichments ==
    {"llm.clean_and_structure", "llm.enrich_from_knowledge", "llm.summarize_posts",
     "llm.global_synthesis", "llm.justify_reliability"}
\* how many times the request has called a method
Times(call) == Cardinality({i \in 1..Len(calls) : calls[i] = call})

\* C19: within a request no collaborator method is called twice, whatever the
\* earlier calls returned; once the four payloads are in, and when the request
\* is over, each collector's scrape has been called exactly once; and the
\* request calls nothing but the four scrapes and the five enrichments.
C19_NoRepeatedCall ==
    /\ \A i \in 1..Len(calls) : calls[i] \in Scrapes \cup Enrichments
    /\ \A call \in Scrapes \cup Enrichments : Times(call) <= 1
    /\ (Collected \/ Ended) => \A call \in Scrapes : Times(call) = 1
\* a request that returned after calling every collector and every enrichment
\* once, the LLM having failed the structuring and the knowledge fallback
C19_Witness ==
    /\ Returned
    /\ \A call \in Scrapes \cup Enrichments : Times(call) = 1
    /\ answers.structure = FailedResponse /\ answers.knowledge = FailedResponse

\* C20: two requests served by the same ProfileOrchestrator share no mutable
\* state: no attribute of the orchestrator, of its collectors or of its LLM
\* client is assigned by both, and the second request ends as the first did.
C20_NoSharedState ==
    /\ Cardinality(writers) <= 1
    /\ (Repeating /\ Ended) => /\ error = first.error
                                /\ response = first.response

\* C27: create_profile raises an exception when all scraping sources fail: a
\* request whose four collectors returned their empty payloads does not return
\* a profile, it ends with an exception.
C27_RaisesWhenAllSourcesFail ==
    /\ (AllEmpty /\ Ended) => pc = "raised"
    /\ AllEmpty => ~Returned

\* C28: the low-confidence adjustment is a penalty: the final reliability score
\* is never above the score calculate_score returned, whatever that score is
\* (those below 20 included).
C28_AdjustmentNeverIncreases ==
    Rated => FinalScore <= scoring_result.score

\* the paragraphs of the company site's text, in document order
SiteParagraphs ==
    LET content == GetN(Get(scraping_results.company, "company_info", EmptyDict),
                        "full_content")
    IN IF Truthy(content) THEN SplitParas(content.v) ELSE <<>>
\* the paragraphs that contain the identity's full name, whatever the case
Naming ==
    {i \in 1..Len(SiteParagraphs) :
        Contains(Lower(SiteParagraphs[i]),
                 Lower(data.v.first_name.v \o <<" ">> \o data.v.last_name.v))}
\* the six steps of the summary ladder, in order
SummaryLadder ==
    <<IF Naming = {} THEN None
      ELSE LET i == CHOOSE k \in Naming : \A m \in Naming : k <= m
           IN Str(Take(Strip(SiteParagraphs[i]), 400)),
      GetN(Get(scraping_results.company, "person_profile", EmptyDict), "bio"),
      GetN(Get(scraping_results.linkedin, "profile", EmptyDict), "about"),
      GetN(structured, "summary"),
      GetN(profile_data.llm_enrichment, "summary"),
      Str(data.v.first_name.v \o <<" ">> \o data.v.last_name.v \o SummaryMiddle
          \o data.v.company.v \o <<".">>)>>

\* C24: the merged summary is the value of the first step of the ladder that
\* yields a non-empty value: the first company-site paragraph naming the person
\* (case-insensitively) cut to 400 characters, the person-profile bio, the
\* network about text, the structuring summary, the knowledge-fallback summary,
\* the template; a later step never overrides a non-empty earlier one.
C24_SummaryLadder ==
    Extracted =>
        \E ladder \in {SummaryLadder} :
            \E k \in 1..6 :
                /\ Truthy(ladder[k])
                /\ \A j \in 1..(k - 1) : ~Truthy(ladder[j])
                /\ profile_data.summary = ladder[k]
\* two paragraphs name the person and the structuring gave a summary too: the
\* merged summary is the first of the two paragraphs, cut to 400 characters
C24_Witness ==
    /\ Extracted
    /\ Cardinality(Naming) = 2
    /\ Truthy(GetN(structured, "summary"))
    /\ Len(Strip(SiteParagraphs[2])) > 400
    /\ profile_data.summary = Str(Take(Strip(SiteParagraphs[2]), 400))

\* the experiences the company payload supplies, and those of the structuring
PayloadExperiences ==
    Get(Get(scraping_results.company, "person_profile", EmptyDict), "experiences",
        EmptyList).v
StructuredExperiences ==
    IF IsDict(structured) /\ Truthy(GetN(structured, "experiences"))
    THEN GetN(structured, "experiences").v ELSE <<>>
\* the knowledge-fallback experience list ([] when the fallback gave none)
KnowledgeExperiences == Or(GetN(profile_data.llm_enrichment, "experiences"), EmptyList)
\* the i-th merged experience
Merged(i) == profile_data.experiences.v[i].v

\* C25: the merged experiences are the experiences of the company payload
\* followed by those of the structuring, each kept (no deduplication) and in
\* that order; the knowledge-fallback list is the output exactly when this
\* concatenation is empty.
C25_ExperiencesConcatenated ==
    Extracted =>
        \E co \in {PayloadExperiences}, st \in {StructuredExperiences} :
            IF Len(co) + Len(st) = 0
            THEN profile_data.experiences = KnowledgeExperiences
            ELSE /\ PyLen(profile_data.experiences) = Len(co) + Len(st)
                 /\ \A i \in 1..Len(co) :
                       /\ Merged(i).description = GetN(co[i], "description")
                       /\ Merged(i).title = Or(GetN(co[i], "title"), EmptyStr)
                 /\ \A i \in 1..Len(st) :
                       /\ Merged(Len(co) + i).title = Or(GetN(st[i], "title"), EmptyStr)
                       /\ Merged(Len(co) + i).description = GetN(st[i], "description")
                       /\ Truthy(GetN(st[i], "company")) =>
                             Merged(Len(co) + i).company = GetN(st[i], "company")
\* two experiences of the company payload followed by two of the structuring,
\* while the knowledge fallback had experiences of its own
C25_Witness ==
    /\ Extracted
    /\ Len(PayloadExperiences) = 2 /\ Len(StructuredExperiences) = 2
    /\ Truthy(KnowledgeExperiences)
    /\ PyLen(profile_data.experiences) = 4
    /\ Merged(1).description = Tok("2015 founded")
    /\ Merged(4).company = Tok("Other Ltd")

\* C26: every Experience of the merged profile has a company: a non-empty
\* string, the identity's organization when the source (company payload,
\* structuring or knowledge fallback) omitted it or gave an empty one.
C26_ExperienceHasCompany ==
    Extracted =>
        \A i \in 1..PyLen(profile_data.experiences) : NonEmptyStr(Merged(i).company)

\* the posts of the network payload
PayloadPosts == Get(scraping_results.linkedin, "posts", EmptyList).v

\* C29: the posts of linkedin_analysis are the well-formed posts of the network
\* payload, in payload order, whatever summarize_posts returned (nothing, a
\* failure, a value that is not an object, null themes); so the posts handed to
\* the scorer depend on the network payload alone.
C29_PostsIndependentOfSummarizer ==
    /\ Extracted =>
          /\ PyLen(profile_data.linkedin_analysis.v.posts) = Len(PayloadPosts)
          /\ \A i \in 1..Len(PayloadPosts) :
                profile_data.linkedin_analysis.v.posts.v[i].v.content
                  = GetN(PayloadPosts[i], "content")
    /\ score_args # NotYet => PyLen(score_args.posts) = Len(PayloadPosts)

\* the URL fields of the returned profile's contact info
Contact == response.profile.v.contact_info.v
\* src is in the returned sources_used
Listed(src) ==
    \E i \in 1..PyLen(response.profile.v.sources_used) :
        response.profile.v.sources_used.v[i] = Tok(src)

\* C30: in every returned record linkedin is in sources_used exactly when
\* contact_info.linkedin_url is non-empty, company exactly when
\* contact_info.website is non-empty, a non-empty contact_info.twitter or
\* contact_info.github implies social is in sources_used, and debug.sources_used,
\* profile.sources_used and the list given to the scorer are the same list.
C30_EvidenceAgreesWithContact ==
    Returned =>
        /\ Listed("linkedin") <=> Truthy(Contact.linkedin_url)
        /\ Listed("company") <=> Truthy(Contact.website)
        /\ (Truthy(Contact.twitter) \/ Truthy(Contact.github)) => Listed("social")
        /\ response.debug.sources_used = response.profile.v.sources_used
        /\ response.profile.v.sources_used = score_args.sources_used
\* a returned record that lists social for a medium profile alone, with no
\* network URL and a company website
C30_Witness ==
    /\ Returned
    /\ Listed("social") /\ ~Truthy(Contact.twitter) /\ ~Truthy(Contact.github)
    /\ ~Listed("linkedin") /\ Contact.linkedin_url = None
    /\ Listed("company") /\ Contact.website = Tok("https://acmecorp.com")

\* C23: POST /profiling/ returns the record of the pipeline: for the identity
\* and the payloads of a request that create_profile answered, the handler's
\* profile has the same reliability score, headline and summary, the headline
\* and the summary being non-empty.
C23_SurfaceReturnsPipelineRecord ==
    Returned =>
        \E out \in {profiling(data, scraping_results)} :
            /\ out.raised = "none"
            /\ out.reliability.v.score = response.profile.v.reliability.v.score
            /\ out.headline = response.profile.v.headline
            /\ out.summary = response.profile.v.summary
            /\ NonEmptyStr(out.headline) /\ NonEmptyStr(out.summary)

\* the scrape of src has ended
Scraped_(src) == answers.fetches[src] # NotYet
\* a fetch that raised, returned nothing, or was not made
Fruitless(fetch) == fetch \in {FetchRaises, None, NotYet}
\* every fetch of the collector was fruitless
NothingFetched ==
    [linkedin |-> \A i \in 1..3 : Fruitless(answers.fetches.linkedin[i]),
     company |-> \A i \in 1..5 : Fruitless(answers.fetches.company[i]),
     news |-> /\ Fruitless(answers.fetches.news[1])
              /\ \A i \in 1..3 : Fruitless(answers.fetches.news[2][i]),
     social |-> \A i \in 1..3 : Fruitless(answers.fetches.social[i])]

\* C21: no scrape of the four collectors raises: whatever its fetches did
\* (raised, returned nothing, returned a page), the scrape ends by returning a
\* dictionary to _scrape_all_sources, and no exception leaves create_profile.
C21_ScrapeNeverRaises ==
    /\ pc # "raised"
    /\ \A src \in DOMAIN scraping_results :
          Scraped_(src) => IsDict(scraping_results[src])
\* every fetch of the four collectors raised, and the four payloads are in
C21_Witness ==
    /\ Collected
    /\ answers.fetches.linkedin = <<FetchRaises, FetchRaises, FetchRaises>>
    /\ answers.fetches.company[1] = FetchRaises
    /\ answers.fetches.news = <<FetchRaises, <<FetchRaises, FetchRaises, FetchRaises>>>>
    /\ answers.fetches.social = <<FetchRaises, FetchRaises, FetchRaises>>
    /\ \A src \in DOMAIN scraping_results : IsDict(scraping_results[src])

\* C22: a collector whose fetches all failed or returned nothing gives its empty
\* payload, without its marker: the network payload has url = None unless the
\* candidate URL passed validation, the company payload has no company_website
\* unless the search resolved a site, and the source is not in sources_used.
C22_FruitlessFetchesLeaveNoMarker ==
    /\ (Scraped_("linkedin") /\ answers.fetches.linkedin[1] # Page(TRUE)) =>
          GetN(scraping_results.linkedin, "url") = None
    /\ (Scraped_("company") /\ Fruitless(answers.fetches.company[1])) =>
          "company_website" \notin DOMAIN scraping_results.company.v
    /\ Collected =>
          \A src \in DOMAIN Rank :
              NothingFetched[src] =>
                  /\ ~HasMarker[src]
                  /\ \A i \in 1..PyLen(_identify_sources(scraping_results)) :
                        _identify_sources(scraping_results).v[i] # Tok(src)
====
